---- MODULE Spec2Model ----
(***************************************************************************)
(* A model of fitparse/base.py: the streaming FIT decoder FitFile.          *)
(* The input is a byte stream (a sequence of 0..255); every handler reads  *)
(* it byte by byte exactly as the code does, folding the CRC, counting     *)
(* bytes_left, installing definitions and decoding data records.           *)
(* Python's None is modelled by the integer -1 (all decoded values are     *)
(* unsigned); an exception is the name of its class in the field exc.      *)
(***************************************************************************)
EXTENDS Integers, Sequences, FiniteSets, TLC

None == 0 - 1

\* ------------------------------------------------------------------ bounds
\* Number of records in the generated record sections.
MaxRecs == 2
\* The get_messages() generators made on one parser, and the one that is
\* made where a single iteration is looked at.
Iterators == {1, 2}
Solo == {1}

\* ------------------------------------------------------- sequence helpers
Min(a, b) == IF a < b THEN a ELSE b
Max(a, b) == IF a < b THEN b ELSE a
Last(q) == q[Len(q)]
\* B(v), with v evaluated once before B is
Bind(v, B(_)) == CHOOSE r \in { B(y) : y \in {v} } : TRUE
\* q[from+1 .. from+n], cut at the end of q: what file.read(n) returns at
\* offset from.
Slice(q, from, n) == SubSeq(q, from + 1, Min(Len(q), from + n))
RECURSIVE Flatten(_)
Flatten(qq) == IF qq = <<>> THEN <<>> ELSE Head(qq) \o Flatten(Tail(qq))
RECURSIVE SeqsUpTo(_, _)
SeqsUpTo(S, n) ==
    IF n = 0 THEN {<<>>}
    ELSE LET P == SeqsUpTo(S, n - 1) IN P \cup {Append(q, x) : q \in P, x \in S}

\* ------------------------------------------------------------ bit helpers
RECURSIVE Pow2(_)
Pow2(n) == IF n = 0 THEN 1 ELSE 2 * Pow2(n - 1)
Shr(a, n) == a \div Pow2(n)
\* a & (2^n - 1)
LowBits(a, n) == a % Pow2(n)
\* bit n of a is set
Bit(a, n) == (a \div Pow2(n)) % 2 = 1
RECURSIVE XorBits(_, _, _)
XorBits(a, b, n) ==
    IF n = 0 THEN 0
    ELSE (((a % 2) + (b % 2)) % 2) + 2 * XorBits(a \div 2, b \div 2, n - 1)
Xor4 == [a \in 0..15 |-> [b \in 0..15 |-> XorBits(a, b, 4)]]
Xor16(a, b) ==
      Xor4[a % 16][b % 16]
    + 16 * Xor4[(a \div 16) % 16][(b \div 16) % 16]
    + 256 * Xor4[(a \div 256) % 16][(b \div 256) % 16]
    + 4096 * Xor4[(a \div 4096) % 16][(b \div 4096) % 16]

\* ---------------------------------------------------------------- the CRC
\* fitparse.utils.calc_crc: the FIT SDK's 16-bit CRC, two nibble lookups per
\* byte, seed 0.
CRC_TABLE ==
    << 0, 52225, 55297, 5120, 61441, 15360, 10240, 58369,
       40961, 27648, 30720, 46081, 20480, 39937, 34817, 17408 >>
crc_nibble(crc, nib) ==
    Xor16(Xor16((crc \div 16) % 4096, CRC_TABLE[(crc % 16) + 1]), CRC_TABLE[nib + 1])
crc_byte(crc, byte) == crc_nibble(crc_nibble(crc, byte % 16), (byte \div 16) % 16)
RECURSIVE calc_crc(_, _)
calc_crc(data, crc) ==
    IF data = <<>> THEN crc
    ELSE LET c == crc_byte(crc, Head(data)) IN
         IF c >= 0 THEN calc_crc(Tail(data), c) ELSE c

\* ----------------------------------------------------------- struct codec
\* struct.pack / struct.unpack of one unsigned integer of n bytes.
RECURSIVE unpack_le(_)
unpack_le(bs) == IF bs = <<>> THEN 0 ELSE Head(bs) + 256 * unpack_le(Tail(bs))
RECURSIVE unpack_be(_)
unpack_be(bs) ==
    IF bs = <<>> THEN 0 ELSE unpack_be(SubSeq(bs, 1, Len(bs) - 1)) * 256 + Last(bs)
unpack_int(bs, endian) == IF endian = ">" THEN unpack_be(bs) ELSE unpack_le(bs)
\* struct.pack accepts v for an unsigned format of n bytes (an integer of
\* the model is below 2^31 and always fits 4 bytes)
fits(v, n) == v >= 0 /\ (n >= 4 \/ v < Pow2(8 * n))
\* struct.pack of v in an unsigned format of n bytes: a sequence of at most
\* one byte string, none when struct.pack raises struct.error
pack_le(v, n) ==
    IF fits(v, n) THEN << [i \in 1..n |-> (v \div Pow2(8 * (i - 1))) % 256] >> ELSE <<>>
pack_be(v, n) ==
    IF fits(v, n) THEN << [i \in 1..n |-> (v \div Pow2(8 * (n - i))) % 256] >> ELSE <<>>
pack_int(v, n, endian) == IF endian = ">" THEN pack_be(v, n) ELSE pack_le(v, n)
\* struct.pack of the values in a format of Len(sizes) unsigned items, item
\* i of sizes[i] bytes: none (struct.error) when the number of values is not
\* the number of items or a value does not fit its item
RECURSIVE struct_pack(_, _, _)
struct_pack(values, sizes, endian) ==
    IF Len(values) # Len(sizes) THEN <<>>
    ELSE IF values = <<>> THEN << <<>> >>
    ELSE LET h == pack_int(Head(values), Head(sizes), endian)
             t == struct_pack(Tail(values), Tail(sizes), endian)
         IN  IF h = <<>> \/ t = <<>> THEN <<>> ELSE << h[1] \o t[1] >>

\* ------------------------------------------------------------ the profile
\* The static tables the decoder consumes (fitparse.profile, fitparse.records):
\* a small profile with the shapes the decoder distinguishes.
\* Base types: identifier -> name and wire size. An unknown identifier falls
\* back to byte (BASE_TYPES.get(base_type_num, BASE_TYPE_BYTE)).
BASE_TYPE_BYTE == [name |-> "byte", identifier |-> 13, size |-> 1]
BASE_TYPES ==
    (0 :> [name |-> "enum", identifier |-> 0, size |-> 1]) @@
    (2 :> [name |-> "uint8", identifier |-> 2, size |-> 1]) @@
    (132 :> [name |-> "uint16", identifier |-> 132, size |-> 2]) @@
    (134 :> [name |-> "uint32", identifier |-> 134, size |-> 4]) @@
    (13 :> BASE_TYPE_BYTE)
base_type_of(num) == IF num \in DOMAIN BASE_TYPES THEN BASE_TYPES[num] ELSE BASE_TYPE_BYTE

\* FIELD_TYPE_TIMESTAMP.def_num
TIMESTAMP_DEF_NUM == 253

NoComponents == <<>>
NoSubfields == <<>>
\* scale and offset of a field without them
NoScale == 0
NoOffset == 0
PlainField(n) ==
    [name |-> n, subfields |-> NoSubfields, components |-> NoComponents,
     scale |-> NoScale, offset |-> NoOffset]
ScaledComponent(d, off, b, acc, sc) ==
    [def_num |-> d, bit_offset |-> off, bits |-> b, accumulate |-> acc,
     scale |-> sc, offset |-> NoOffset]
Component(d, off, b, acc) == ScaledComponent(d, off, b, acc, NoScale)
ComponentSubField(n, refs, cmps) ==
    [name |-> n, ref_fields |-> refs, components |-> cmps,
     scale |-> NoScale, offset |-> NoOffset]
SubField(n, refs) == ComponentSubField(n, refs, NoComponents)
Ref(d, v) == [def_num |-> d, raw_value |-> v]

\* MESSAGE_TYPES: global message number -> name and fields (def_num -> field).
MESSAGE_TYPES ==
    (0 :> [name |-> "file_id", fields |-> (0 :> PlainField("type"))]) @@
    (20 :> [name |-> "record", fields |->
              (253 :> PlainField("timestamp")) @@
              (5 :> PlainField("distance")) @@
              (6 :> PlainField("speed")) @@
              (8 :> [name |-> "compressed_speed_distance",
                     scale |-> NoScale, offset |-> NoOffset,
                     subfields |-> NoSubfields,
                     components |-> << Component(6, 0, 12, FALSE),
                                       Component(5, 12, 12, TRUE) >>])]) @@
    (21 :> [name |-> "event", fields |->
              (0 :> PlainField("event")) @@
              (3 :> [name |-> "data",
                     scale |-> NoScale, offset |-> NoOffset,
                     subfields |-> << SubField("timer_trigger", <<Ref(0, 0)>>),
                                      SubField("gear_change_data", <<Ref(0, 42), Ref(0, 43)>>) >>,
                     components |-> NoComponents])]) @@
    (22 :> [name |-> "packed", fields |->
              (0 :> [name |-> "packed",
                     scale |-> NoScale, offset |-> NoOffset,
                     subfields |-> NoSubfields,
                     components |-> << ScaledComponent(1, 0, 16, FALSE, 10),
                                       Component(2, 16, 16, TRUE) >>]) @@
              (1 :> PlainField("low")) @@
              (2 :> PlainField("high"))]) @@
    (23 :> [name |-> "counter", fields |->
              (0 :> PlainField("kind")) @@
              (1 :> [name |-> "data",
                     scale |-> NoScale, offset |-> NoOffset,
                     subfields |-> << ComponentSubField("ticks", <<Ref(0, 1)>>,
                                          << Component(2, 0, 4, TRUE) >>) >>,
                     components |-> NoComponents]) @@
              (2 :> PlainField("total"))]) @@
    (206 :> [name |-> "field_description", fields |->
              (0 :> PlainField("developer_data_index")) @@
              (1 :> PlainField("field_definition_number")) @@
              (2 :> PlainField("fit_base_type_id"))]) @@
    (207 :> [name |-> "developer_data_id", fields |->
              (3 :> PlainField("developer_data_index"))])

\* A field or no field: Python's "field or None" as a sequence of length <= 1.
NoneOf == <<>>
Some(x) == <<x>>
IsNone(o) == o = <<>>
The(o) == o[1]

mesg_type_of(global_mesg_num) ==
    IF global_mesg_num \in DOMAIN MESSAGE_TYPES
    THEN Some(MESSAGE_TYPES[global_mesg_num]) ELSE NoneOf
\* mesg_type.fields.get(field_def_num) if mesg_type else None
profile_field(global_mesg_num, field_def_num) ==
    LET mt == mesg_type_of(global_mesg_num) IN
    IF IsNone(mt) THEN NoneOf
    ELSE IF field_def_num \in DOMAIN The(mt).fields
         THEN Some(The(mt).fields[field_def_num]) ELSE NoneOf
\* DefinitionMessage.name / DataMessage.name
mesg_name(global_mesg_num) ==
    IF global_mesg_num \in DOMAIN MESSAGE_TYPES
    THEN MESSAGE_TYPES[global_mesg_num].name ELSE "unknown"

\* ---------------------------------------------------------------- the state
VARIABLES
    file,          \* the bytes of the input stream
    check_crc,     \* constructor argument
    fileish,       \* how the parser was given its input: "stream", "path", "bytes"
    pc,            \* "new" before the constructor has run, "ready" after it
                   \* returned, "failed" when it raised (no parser exists)
    pos,           \* self._file.tell()
    fopen,         \* self._file is a stream (FALSE once close() set it to None)
    crc,           \* self._crc
    out_crc,       \* self._out_crc
    bytes_left,    \* self._bytes_left
    complete,      \* self._complete
    local_mesgs,   \* self._local_mesgs: local_mesg_num -> definition message
    accumulators,  \* self._accumulators: global_mesg_num -> (def_num -> value)
    compressed_ts_accumulator,
    logs,          \* every list self._messages was ever bound to, oldest
                   \* first; the last one is the current self._messages
    out,           \* the bytes written to the rewrite sink
    outst,         \* self._out: "missing" (attribute never set), "none", "sink"
    dev_types,     \* the developer-field registry
    exc,           \* the exception the last call raised, "none" if it returned
    ret,           \* what the last call of _parse_message returned
    trace,         \* history: the file headers, records and footers read
    stepped,       \* history: _parse_message or parse() was called directly
    has_sink,      \* constructor argument: out is a sink, not None
    iters,         \* the get_messages() generators
    calls,         \* history: the calls made to the processor
    applied        \* the last application of a helper on its own: its
                   \* arguments and its result

vars == << file, check_crc, fileish, pc, pos, fopen, crc, out_crc, bytes_left,
           complete, local_mesgs, accumulators, compressed_ts_accumulator, logs,
           out, outst, dev_types, exc, ret, trace, stepped, has_sink, iters,
           calls, applied >>

EmptyMap == <<>>
NoDevTypes == [ids |-> {}, fields |-> EmptyMap]
RawInt(v) == [k |-> "int", v |-> <<v>>]
RawNone == [k |-> "none", v |-> <<>>]
RawTuple(vs) == [k |-> "tuple", v |-> vs]

\* The parser object as one value: the handlers below are functions from
\* this value to the value after the handler. data is the result of the
\* last _read; exc short-circuits everything after a raise.
Self ==
    [ pos |-> pos, fopen |-> fopen, crc |-> crc, out_crc |-> out_crc,
      bytes_left |-> bytes_left, complete |-> complete,
      local_mesgs |-> local_mesgs, accumulators |-> accumulators,
      ts |-> compressed_ts_accumulator, logs |-> logs, out |-> out,
      outst |-> outst, dev_types |-> dev_types, exc |-> "none",
      ret |-> NoneOf, trace |-> trace, data |-> <<>>, calls |-> calls ]

Ok(s) == s.exc = "none"
Raise(s, e) == [s EXCEPT !.exc = e]
\* An event of the history: kind k at byte offset at. The event "entered" of
\* an accepted file header carries the attributes the header left.
Event(k, at) == [k |-> k, at |-> at, snap |-> <<>>]
Log(s, k, at) == [s EXCEPT !.trace = Append(@, Event(k, at))]
Snapshot(s) ==
    [ crc |-> s.crc, bytes_left |-> s.bytes_left, local_mesgs |-> s.local_mesgs,
      accumulators |-> s.accumulators, ts |-> s.ts, logged |-> Len(Last(s.logs)) ]
Entered(s) ==
    [s EXCEPT !.trace = Append(@, [k |-> "entered", at |-> s.pos, snap |-> << Snapshot(s) >>])]

\* ------------------------------------------------- low-level read / write
\* _read
read(s, size) ==
    IF ~Ok(s) THEN s
    ELSE IF size <= 0 THEN [s EXCEPT !.data = <<>>]
    ELSE IF ~s.fopen THEN Raise(s, "AttributeError")
    ELSE LET d == Slice(file, s.pos, size) IN
         [s EXCEPT !.data = d, !.pos = @ + Len(d),
                   !.crc = calc_crc(d, @), !.bytes_left = @ - Len(d)]

\* _write
write(s, data) ==
    IF ~Ok(s) THEN s
    ELSE IF s.outst = "missing" THEN Raise(s, "AttributeError")
    ELSE IF s.outst = "sink" /\ data # <<>>
         THEN [s EXCEPT !.out = @ \o data, !.out_crc = calc_crc(data, @)]
         ELSE s

\* _read_struct, for a format of size bytes; the caller unpacks s.data
read_struct(s, size) ==
    IF ~Ok(s) THEN s
    ELSE IF size <= 0 THEN Raise(s, "FitParseError")
    ELSE Bind(read(s, size), LAMBDA r :
            IF Ok(r) /\ Len(r.data) # size THEN Raise(r, "FitEOFError") ELSE r)

\* _write_struct, of the result of struct.pack (none: struct.pack raises
\* struct.error, whose class name is error); without a sink it returns
\* before it packs
write_struct(s, packed) ==
    IF ~Ok(s) THEN s
    ELSE IF s.outst = "missing" THEN Raise(s, "AttributeError")
    ELSE IF s.outst = "none" THEN s
    ELSE IF IsNone(packed) THEN Raise(s, "error")
    ELSE write(s, The(packed))

\* A comparison that takes a CRC of 0 as unchecked wherever it is read: the
\* one C3 excludes for the footer.
crc_rejected_zero_ok(crc_expected, crc_actual, allow_zero) ==
    (crc_actual # crc_expected) /\ (crc_actual # 0)

\* the comparison of _read_and_assert_crc
crc_rejected(crc_expected, crc_actual, allow_zero) ==
    (crc_actual # crc_expected) /\ ~(allow_zero /\ crc_actual = 0)

\* _read_and_assert_crc
read_and_assert_crc(s, allow_zero) ==
    IF ~Ok(s) THEN s
    ELSE Bind(read_struct(s, 2), LAMBDA r :
            IF ~Ok(r) THEN r
            ELSE IF crc_rejected(s.crc, unpack_le(r.data), allow_zero) /\ check_crc
                 THEN Raise(r, "FitCRCError")
                 ELSE r)

\* _write_crc
write_crc(s) == write_struct(s, pack_le(s.out_crc, 2))

\* close
close(s) ==
    IF s.outst = "missing" THEN Raise([s EXCEPT !.fopen = FALSE], "AttributeError")
    ELSE [s EXCEPT !.fopen = FALSE, !.outst = "none"]

\* ------------------------------------------------------------ file header
FIT_MAGIC == << 46, 70, 73, 84 >>

\* the part of _parse_file_header that consumes the bytes after the 12th
parse_extra_header(s, extra_header_size) ==
    IF ~Ok(s) THEN s
    ELSE IF extra_header_size > 0
    THEN IF extra_header_size < 2
         THEN Raise(s, "FitHeaderError")
         ELSE Bind(read(write_crc(read_and_assert_crc(s, TRUE)), extra_header_size - 2),
                   LAMBDA unknown : write(unknown, unknown.data))
    ELSE s

\* A reset that keeps the local-message table: the one C4 excludes.
reset_section_keep_table(s) ==
    [s EXCEPT !.accumulators = EmptyMap, !.bytes_left = 0 - 1,
              !.complete = FALSE, !.ts = RawInt(0), !.crc = 0,
              !.out_crc = 0, !.logs = Append(@, <<>>)]

\* the attributes _parse_file_header initializes
reset_section(s) ==
    [s EXCEPT !.accumulators = EmptyMap, !.bytes_left = 0 - 1,
              !.complete = FALSE, !.ts = RawInt(0), !.crc = 0,
              !.out_crc = 0, !.local_mesgs = EmptyMap,
              !.logs = Append(@, <<>>)]

\* _parse_file_header after header_data was read
check_file_header(s, header_data) ==
    IF ~Ok(s) THEN s
    ELSE IF Slice(header_data, 8, 4) # FIT_MAGIC THEN Raise(s, "FitHeaderError")
    ELSE Bind(parse_extra_header(write(s, header_data), header_data[1] - 12),
              LAMBDA a : IF Ok(a)
                         THEN Entered([a EXCEPT !.bytes_left =
                                          unpack_le(SubSeq(header_data, 5, 8))])
                         ELSE a)

\* _parse_file_header
parse_file_header(s) ==
    IF ~Ok(s) THEN s
    ELSE Bind(read(reset_section(Log(s, "header", s.pos)), 12),
              LAMBDA a : check_file_header(a, a.data))

\* ----------------------------------------------------------- record header
\* MessageHeader of a compressed-timestamp header byte
compressed_header(header) ==
    [ is_definition |-> FALSE, is_developer_data |-> FALSE,
      local_mesg_num |-> Shr(header, 5) % 4,
      time_offset |-> header % 32 ]

\* MessageHeader of a normal header byte
normal_header(header) ==
    [ is_definition |-> Bit(header, 6), is_developer_data |-> Bit(header, 5),
      local_mesg_num |-> header % 16,
      time_offset |-> None ]

\* the decoding of _parse_message_header
decode_header(header) ==
    IF Bit(header, 7) THEN compressed_header(header) ELSE normal_header(header)

\* the byte _write_message_header packs
encode_header(header) ==
    IF header.time_offset # None
    THEN 128 + header.local_mesg_num * 32 + header.time_offset
    ELSE (IF header.is_definition THEN 64 ELSE 0)
         + (IF header.is_developer_data THEN 32 ELSE 0)
         + header.local_mesg_num

\* _write_message_header
write_message_header(s, header) == write_struct(s, pack_le(encode_header(header), 1))

\* ------------------------------------------------------ definition records
\* the accumulators after "accumulators[component.def_num] = 0" for every
\* accumulating component of the field
RECURSIVE init_accumulators(_, _, _)
init_accumulators(acc, global_mesg_num, components) ==
    IF components = <<>> THEN acc
    ELSE LET c == Head(components)
             old == IF global_mesg_num \in DOMAIN acc THEN acc[global_mesg_num] ELSE EmptyMap
             new == IF c.accumulate
                    THEN (global_mesg_num :> ((c.def_num :> 0) @@ old)) @@ acc
                    ELSE acc
         IN  init_accumulators(new, global_mesg_num, Tail(components))

\* the FieldDefinition of one (field_def_num, field_size, base_type_num)
field_definition(global_mesg_num, triple) ==
    [ field |-> profile_field(global_mesg_num, triple[1]), def_num |-> triple[1],
      base_type |-> Some(base_type_of(triple[3])), size |-> triple[2],
      is_dev |-> FALSE, dev_data_index |-> None ]

\* one round of the loop over range(num_fields): the state after the field
\* definition fd was read
accept_field_def(s, global_mesg_num, fd) ==
    IF (fd.size % The(fd.base_type).size) # 0 THEN Raise(s, "FitParseError")
    ELSE IF ~IsNone(fd.field) /\ The(fd.field).components # <<>>
    THEN [s EXCEPT !.accumulators =
            init_accumulators(@, global_mesg_num, The(fd.field).components)]
    ELSE s

\* The loop over range(num_fields) of _parse_definition_message: reads n
\* field definitions, appending them to field_defs. The result carries the
\* list in the field fds.
RECURSIVE read_field_defs(_, _, _, _)
read_field_defs(s, n, global_mesg_num, field_defs) ==
    IF ~Ok(s) \/ n = 0 THEN [st |-> s, fds |-> field_defs]
    ELSE Bind(read_struct(s, 3), LAMBDA r :
            IF ~Ok(r) THEN [st |-> r, fds |-> field_defs]
            ELSE Bind(field_definition(global_mesg_num, r.data), LAMBDA fd :
                 Bind(accept_field_def(r, global_mesg_num, fd), LAMBDA a :
                    IF ~Ok(a) THEN [st |-> a, fds |-> field_defs]
                    ELSE read_field_defs(a, n - 1, global_mesg_num, Append(field_defs, fd)))))

\* get_dev_type: the registered developer field, or none
get_dev_type(reg, dev_data_index, field_def_num) ==
    IF << dev_data_index, field_def_num >> \in DOMAIN reg.fields
    THEN Some(reg.fields[<< dev_data_index, field_def_num >>]) ELSE NoneOf

\* the DevFieldDefinition of one (field_def_num, field_size, dev_data_index)
dev_field_definition(field, triple) ==
    [ field |-> IF IsNone(field) THEN NoneOf ELSE Some(PlainField(The(field).name)),
      def_num |-> triple[1],
      base_type |-> IF IsNone(field) THEN NoneOf
                    ELSE Some(base_type_of(The(field).base_type)),
      size |-> triple[2],
      is_dev |-> TRUE, dev_data_index |-> triple[3] ]

\* The loop over range(num_dev_fields) of _parse_definition_message.
RECURSIVE read_dev_field_defs(_, _, _)
read_dev_field_defs(s, n, dev_field_defs) ==
    IF ~Ok(s) \/ n = 0 THEN [st |-> s, fds |-> dev_field_defs]
    ELSE Bind(read_struct(s, 3), LAMBDA r :
            IF ~Ok(r) THEN [st |-> r, fds |-> dev_field_defs]
            ELSE read_dev_field_defs(r, n - 1,
                    Append(dev_field_defs,
                           dev_field_definition(
                               get_dev_type(r.dev_types, r.data[3], r.data[1]), r.data))))

\* An installation that keeps the entry a slot already has: the one C2
\* excludes.
install_keep(table, local_mesg_num, def_mesg) == table @@ (local_mesg_num :> def_mesg)

\* self._local_mesgs[header.local_mesg_num] = def_mesg
install(table, local_mesg_num, def_mesg) == (local_mesg_num :> def_mesg) @@ table

\* the DefinitionMessage _parse_definition_message builds; at is the offset
\* of the record's header byte
DefinitionMessage(header, at, endian, global_mesg_num, field_defs, dev_field_defs) ==
    [ type |-> "definition", at |-> at, header |-> header,
      endian |-> endian, mesg_num |-> global_mesg_num,
      name |-> mesg_name(global_mesg_num),
      field_defs |-> field_defs, dev_field_defs |-> dev_field_defs ]

\* _parse_definition_message from the developer fields on; f is the result
\* of the loop over the fields
finish_definition(f, header, at, endian, global_mesg_num) ==
    IF ~Ok(f.st) THEN f.st
    ELSE Bind(IF header.is_developer_data THEN read_struct(f.st, 1) ELSE f.st, LAMBDA r3 :
         IF ~Ok(r3) THEN r3
         ELSE Bind(IF header.is_developer_data
                   THEN read_dev_field_defs(r3, r3.data[1], <<>>)
                   ELSE [st |-> r3, fds |-> <<>>], LAMBDA d :
              IF ~Ok(d.st) THEN d.st
              ELSE Bind(DefinitionMessage(header, at, endian, global_mesg_num, f.fds, d.fds),
                        LAMBDA def_mesg :
                        [d.st EXCEPT
                            !.local_mesgs = install(@, header.local_mesg_num, def_mesg),
                            !.ret = Some(def_mesg)])))

\* _parse_definition_message after the architecture byte gave endian
read_definition(s, header, at, endian) ==
    Bind(read_struct(s, 3), LAMBDA r2 :
        IF ~Ok(r2) THEN r2
        ELSE Bind(unpack_int(SubSeq(r2.data, 1, 2), endian), LAMBDA global_mesg_num :
             Bind(read_field_defs(r2, r2.data[3], global_mesg_num, <<>>), LAMBDA f :
                finish_definition(f, header, at, endian, global_mesg_num))))

\* _parse_definition_message; at is the offset of the record's header byte.
\* The message is left in ret.
parse_definition_message(s, header, at) ==
    Bind(read_struct(s, 2), LAMBDA r1 :
        IF ~Ok(r1) THEN r1
        ELSE read_definition(r1, header, at, IF r1.data[2] # 0 THEN ">" ELSE "<"))

\* the loops of _write_definition_message over the field definitions: one
\* _write_struct of format 3B for each
RECURSIVE write_field_defs(_, _)
write_field_defs(s, fds) ==
    IF ~Ok(s) \/ fds = <<>> THEN s
    ELSE LET fld == Head(fds) IN
         write_field_defs(
             write_struct(s, struct_pack(
                 << fld.def_num, fld.size,
                    IF fld.is_dev THEN fld.dev_data_index
                    ELSE The(fld.base_type).identifier >>,
                 << 1, 1, 1 >>, "<")),
             Tail(fds))

\* _write_definition_message
write_definition_message(s, msg) ==
    Bind(write_field_defs(
             write_struct(s, struct_pack(<< 0, msg.mesg_num, Len(msg.field_defs) >>,
                                         << 2, 2, 1 >>, "<")),
             msg.field_defs),
         LAMBDA a :
         IF msg.header.is_developer_data
         THEN write_field_defs(write_struct(a, pack_le(Len(msg.dev_field_defs), 1)),
                               msg.dev_field_defs)
         ELSE a)

\* ------------------------------------------------------------ data records
AllInvalid(bs) == \A i \in 1..Len(bs) : bs[i] = 255
\* bs cut into chunks of n bytes
RECURSIVE Chunks(_, _)
Chunks(bs, n) ==
    IF Len(bs) < n \/ n <= 0 THEN <<>>
    ELSE << SubSeq(bs, 1, n) >> \o Chunks(SubSeq(bs, n + 1, Len(bs)), n)
\* base_type.parse of one unpacked value: the invalid sentinel (all bits
\* set) becomes None
parse_value(chunk, endian) ==
    IF AllInvalid(chunk) THEN None ELSE unpack_int(chunk, endian)
\* the raw value of one field: struct.unpack and base_type.parse
decode_raw(bs, base_type, endian) ==
    LET count == Len(bs) \div base_type.size
        chunks == Chunks(bs, base_type.size)
    IN  IF base_type.name = "byte"
        THEN IF AllInvalid(bs) THEN RawNone ELSE RawTuple(bs)
        ELSE IF count > 1
             THEN RawTuple([i \in 1..count |-> parse_value(chunks[i], endian)])
             ELSE LET v == parse_value(chunks[1], endian) IN
                  IF v = None THEN RawNone ELSE RawInt(v)

\* _parse_raw_values_from_data_message: the loop over the field definitions
RECURSIVE read_raw_values(_, _, _, _)
read_raw_values(s, defs, endian, raw_values) ==
    IF ~Ok(s) \/ defs = <<>> THEN [st |-> s, raws |-> raw_values]
    ELSE IF IsNone(Head(defs).base_type)
    THEN [st |-> Raise(s, "AttributeError"), raws |-> raw_values]
    ELSE Bind(The(Head(defs).base_type), LAMBDA base_type :
         Bind(read_struct(s, (Head(defs).size \div base_type.size) * base_type.size),
              LAMBDA r :
              IF ~Ok(r) THEN [st |-> r, raws |-> raw_values]
              ELSE read_raw_values(r, Tail(defs), endian,
                       Append(raw_values, decode_raw(r.data, base_type, endian)))))

\* base_type.unparse and struct.pack of one value in size bytes: None
\* becomes the invalid sentinel of the base type (all bits set); none when
\* struct.pack raises struct.error
encode_element(v, size, endian) ==
    IF v = None THEN << [i \in 1..size |-> 255] >> ELSE pack_int(v, size, endian)
\* struct.pack of the values vs, each in size bytes
RECURSIVE encode_elements(_, _, _)
encode_elements(vs, size, endian) ==
    IF vs = <<>> THEN << <<>> >>
    ELSE LET h == encode_element(Head(vs), size, endian)
             t == encode_elements(Tail(vs), size, endian)
         IN  IF h = <<>> \/ t = <<>> THEN <<>> ELSE << h[1] \o t[1] >>
\* the bytes _write_raw_values_from_data_message packs for one field, in
\* the format of count items of the base type: a None of a byte field is
\* written as field_def.size sentinels, another None as one sentinel, a
\* tuple as its elements and a scalar as one value; none (struct.error)
\* when the number of values is not count or a value does not fit
encode_raw(field_def, raw_value, endian) ==
    LET base_type == The(field_def.base_type)
        count == field_def.size \div base_type.size
        values == IF raw_value.k # "none" THEN raw_value.v
                  ELSE IF base_type.name = "byte"
                       THEN [i \in 1..field_def.size |-> None]
                       ELSE << None >>
    IN  IF Len(values) # count THEN <<>>
        ELSE encode_elements(values, base_type.size, endian)

\* _resolve_subfield: the sub-field returned, scanning field.subfields in
\* order, is the first one one of whose ref_fields is matched by a field of
\* the record (the return sits inside the loop over ref_fields).
ref_matches(ref_field, def_mesg, raw_values) ==
    \E j \in 1..Min(Len(def_mesg.field_defs), Len(raw_values)) :
        /\ def_mesg.field_defs[j].def_num = ref_field.def_num
        /\ raw_values[j] = RawInt(ref_field.raw_value)
\* A sub-field selected only when every one of its ref_fields is matched:
\* the selection C13 excludes.
subfield_selected_all(sub_field, def_mesg, raw_values) ==
    \A r \in 1..Len(sub_field.ref_fields) :
        ref_matches(sub_field.ref_fields[r], def_mesg, raw_values)
subfield_selected(sub_field, def_mesg, raw_values) ==
    \E r \in 1..Len(sub_field.ref_fields) :
        ref_matches(sub_field.ref_fields[r], def_mesg, raw_values)
resolve_subfield(field, def_mesg, raw_values) ==
    Bind({ i \in 1..Len(field.subfields) :
              subfield_selected(field.subfields[i], def_mesg, raw_values) },
         LAMBDA hits :
            IF hits = {} THEN [field |-> field, parent_field |-> ""]
            ELSE [field |-> field.subfields[CHOOSE k \in hits : \A m \in hits : k <= m],
                  parent_field |-> field.name])

\* ComponentField.render: the bit slice of the raw value
render_component(component, raw_value) ==
    IF raw_value.k = "none" THEN None
    ELSE LET n == IF raw_value.k = "tuple" THEN unpack_le(raw_value.v) ELSE raw_value.v[1]
         IN  LowBits(Shr(n, component.bit_offset), component.bits)

\* The accumulation without the rollover: what C14 excludes.
apply_compressed_accumulation_flat(raw_value, accumulation, num_bits) ==
    raw_value + (accumulation - (accumulation % Pow2(num_bits)))

\* _apply_compressed_accumulation
apply_compressed_accumulation(raw_value, accumulation, num_bits) ==
    LET max_value == Pow2(num_bits)
        base_value == raw_value + (accumulation - (accumulation % max_value))
    IN  IF raw_value < (accumulation % max_value)
        THEN base_value + max_value
        ELSE base_value

\* Field.render of a field without a renderer
render(field, raw_value) == raw_value

\* a float, kept as the exact quotient num / den
Float(num, den) == [k |-> "float", v |-> << num, den >>]

\* _apply_scale_offset of one number
scale_offset(field, x) ==
    IF field.scale # NoScale
    THEN << x - (field.offset * field.scale), field.scale >>
    ELSE x - field.offset

\* No scale and no offset applied: what C16 excludes.
apply_scale_offset_none(field, raw_value) == raw_value

\* _apply_scale_offset
apply_scale_offset(field, raw_value) ==
    IF raw_value.k = "tuple"
    THEN [raw_value EXCEPT !.v = [i \in DOMAIN raw_value.v |->
              IF raw_value.v[i] = None THEN None
              ELSE scale_offset(field, raw_value.v[i])]]
    ELSE IF raw_value.k = "int"
    THEN IF field.scale # NoScale
         THEN Float(scale_offset(field, raw_value.v[1])[1], field.scale)
         ELSE RawInt(scale_offset(field, raw_value.v[1]))
    ELSE raw_value

\* FieldData; origin and of record where the entry comes from: the loop
\* over the fields, a component or the header's time offset, and the index
\* of the field definition in hand when it was appended (0 for the last).
FieldData(field_def, field, parent_field, value, raw_value, origin, of) ==
    [ field_def |-> field_def, field |-> field, parent_field |-> parent_field,
      value |-> value, raw_value |-> raw_value, origin |-> origin, of |-> of ]

\* the accumulator lookup of _parse_data_message fails
accumulator_missing(s, global_mesg_num, def_num) ==
    \/ global_mesg_num \notin DOMAIN s.accumulators
    \/ def_num \notin DOMAIN s.accumulators[global_mesg_num]

\* one round of the loop over field.components, after component.render gave
\* rendered: the state and the component's raw value (in data)
accumulate_component(s, component, rendered, global_mesg_num) ==
    IF component.accumulate /\ rendered # None
    THEN IF accumulator_missing(s, global_mesg_num, component.def_num)
         THEN Raise(s, "KeyError")
         ELSE Bind(apply_compressed_accumulation(rendered,
                       s.accumulators[global_mesg_num][component.def_num], component.bits),
                   LAMBDA v :
                   [s EXCEPT !.accumulators[global_mesg_num][component.def_num] = v,
                             !.data = << v >>])
    ELSE [s EXCEPT !.data = << rendered >>]

\* the FieldData of a component whose raw value, after accumulation, is
\* cmp_raw_value; res is the component's field after _resolve_subfield
component_field(res, component, cmp_raw_value, of) ==
    Bind(apply_scale_offset(component,
             IF cmp_raw_value = None THEN RawNone ELSE RawInt(cmp_raw_value)),
         LAMBDA scaled :
         FieldData(NoneOf, res.field.name, res.parent_field,
                   render(res.field, scaled), scaled, "component", of))

\* The loop over field.components of _parse_data_message.
RECURSIVE expand_components(_, _, _, _, _, _, _)
expand_components(s, components, raw_value, def_mesg, raw_values, field_datas, of) ==
    IF ~Ok(s) \/ components = <<>> THEN [st |-> s, fds |-> field_datas]
    ELSE IF raw_value.k = "tuple" /\ \E k \in 1..Len(raw_value.v) : raw_value.v[k] = None
    THEN [st |-> Raise(s, "TypeError"), fds |-> field_datas]
    ELSE Bind(accumulate_component(s, Head(components),
                  render_component(Head(components), raw_value), def_mesg.mesg_num),
              LAMBDA a :
              IF ~Ok(a) THEN [st |-> a, fds |-> field_datas]
              ELSE IF Head(components).def_num
                        \notin DOMAIN MESSAGE_TYPES[def_mesg.mesg_num].fields
              THEN [st |-> Raise(a, "KeyError"), fds |-> field_datas]
              ELSE expand_components(a, Tail(components), raw_value, def_mesg, raw_values,
                       Append(field_datas,
                              component_field(
                                  resolve_subfield(
                                      MESSAGE_TYPES[def_mesg.mesg_num].fields[Head(components).def_num],
                                      def_mesg, raw_values),
                                  Head(components), a.data[1], of)),
                       of))

\* "field, parent_field" of one field definition after _resolve_subfield
resolved_field(field_def, def_mesg, raw_values) ==
    IF IsNone(field_def.field)
    THEN [field |-> [name |-> "", components |-> NoComponents], parent_field |-> ""]
    ELSE resolve_subfield(The(field_def.field), def_mesg, raw_values)

\* "value" of the field in hand: rendered and scaled when the field is in the
\* profile, the raw value otherwise
field_value(field_def, res, raw_value) ==
    IF IsNone(field_def.field) THEN raw_value
    ELSE apply_scale_offset(res.field, render(res.field, raw_value))

\* "Update compressed timestamp field"
update_timestamp(s, field_def, raw_value) ==
    IF (field_def.def_num = TIMESTAMP_DEF_NUM) /\ raw_value.k # "none"
    THEN [s EXCEPT !.ts = raw_value]
    ELSE s

\* The entry of the field in hand put ahead of the entries of its components:
\* the order C12 excludes.
place_field_first(field_datas, expanded, entry) ==
    Append(field_datas, entry) \o SubSeq(expanded, Len(field_datas) + 1, Len(expanded))

\* field_datas.append(FieldData(field_def=field_def, ...)), at the end of one
\* round: field_datas is the list when the round began, expanded the list
\* with the entries of the field's components
place_field(field_datas, expanded, entry) == Append(expanded, entry)

\* The loop of _parse_data_message over zip(field_defs + dev_field_defs,
\* raw_values), from the i-th pair on.
RECURSIVE build_field_datas(_, _, _, _, _, _)
build_field_datas(s, defs, i, def_mesg, raw_values, field_datas) ==
    IF ~Ok(s) \/ i > Min(Len(defs), Len(raw_values)) THEN [st |-> s, fds |-> field_datas]
    ELSE Bind(resolved_field(defs[i], def_mesg, raw_values), LAMBDA res :
         Bind(IF IsNone(defs[i].field) THEN [st |-> s, fds |-> field_datas]
              ELSE expand_components(s, res.field.components, raw_values[i], def_mesg,
                                     raw_values, field_datas, i),
              LAMBDA c :
              IF ~Ok(c.st) THEN c
              ELSE build_field_datas(update_timestamp(c.st, defs[i], raw_values[i]),
                       defs, i + 1, def_mesg, raw_values,
                       place_field(field_datas, c.fds,
                           FieldData(Some(defs[i]), res.field.name, res.parent_field,
                                     field_value(defs[i], res, raw_values[i]),
                                     raw_values[i], "field", i)))))

\* the synthetic timestamp of a compressed-timestamp header
timestamp_field(ts_value) ==
    FieldData(NoneOf, "timestamp", "", RawInt(ts_value), RawInt(ts_value), "timestamp", 0)

\* the DataMessage _parse_data_message builds
DataMessage(header, at, def_mesg, field_datas) ==
    [ type |-> "data", at |-> at, header |-> header,
      def_mesg |-> def_mesg, mesg_num |-> def_mesg.mesg_num,
      name |-> def_mesg.name, fields |-> field_datas ]

\* one call of a hook of the processor, for the entry idx of the message
\* read at offset at (0 for the message itself); lst and logged tell the
\* list self._messages is bound to and its length at the time of the call
Call(s, hook, at, idx) ==
    [hook |-> hook, at |-> at, idx |-> idx,
     lst |-> Len(s.logs), logged |-> Len(Last(s.logs))]

\* The three hooks of one FieldData called unit, field, type: an order C17
\* excludes.
field_processors_reversed(s, at, idx) ==
    << Call(s, "unit", at, idx), Call(s, "field", at, idx), Call(s, "type", at, idx) >>

\* run_type_processor, run_field_processor, run_unit_processor of one
\* FieldData
field_processors(s, at, idx) ==
    << Call(s, "type", at, idx), Call(s, "field", at, idx), Call(s, "unit", at, idx) >>

\* "Apply data processors": the loop over field_datas, then
\* run_message_processor
run_processors(s, at, field_datas) ==
    [s EXCEPT !.calls =
        @ \o Flatten([idx \in 1..Len(field_datas) |-> field_processors(s, at, idx)])
          \o << Call(s, "message", at, 0) >>]

\* A data message that gets no timestamp entry whatever its header: what
\* C10 excludes.
finish_data_plain(b, header, at, def_mesg) ==
    IF ~Ok(b.st) THEN b.st
    ELSE [b.st EXCEPT !.ret = << DataMessage(header, at, def_mesg, b.fds) >>]

\* "Apply timestamp field if we got a header": b is the result of the loop
\* over the fields
finish_data(b, header, at, def_mesg) ==
    IF ~Ok(b.st) THEN b.st
    ELSE IF header.time_offset = None
    THEN [run_processors(b.st, at, b.fds) EXCEPT
             !.ret = Some(DataMessage(header, at, def_mesg, b.fds))]
    ELSE IF b.st.ts.k # "int" THEN Raise(b.st, "TypeError")
    ELSE Bind(apply_compressed_accumulation(header.time_offset, b.st.ts.v[1], 5),
              LAMBDA ts_value :
              [run_processors(b.st, at, Append(b.fds, timestamp_field(ts_value))) EXCEPT
                  !.ts = RawInt(ts_value),
                  !.ret = Some(DataMessage(header, at, def_mesg,
                                   Append(b.fds, timestamp_field(ts_value))))])

\* _parse_data_message once the definition is found
decode_data(s, header, at, def_mesg) ==
    Bind(read_raw_values(s, def_mesg.field_defs \o def_mesg.dev_field_defs,
                         def_mesg.endian, <<>>),
         LAMBDA rv :
         Bind(build_field_datas(rv.st, def_mesg.field_defs \o def_mesg.dev_field_defs,
                                1, def_mesg, rv.raws, <<>>),
              LAMBDA b : finish_data(b, header, at, def_mesg)))

\* A lookup that falls back on some installed definition when the slot has
\* none: the lookup C1 excludes.
lookup_or_any(table, local_mesg_num) ==
    IF local_mesg_num \in DOMAIN table THEN << table[local_mesg_num] >>
    ELSE IF DOMAIN table # {} THEN << table[CHOOSE k \in DOMAIN table : TRUE] >>
    ELSE <<>>

\* self._local_mesgs.get(header.local_mesg_num), a sequence of at most one
lookup(table, local_mesg_num) ==
    IF local_mesg_num \in DOMAIN table THEN Some(table[local_mesg_num]) ELSE NoneOf

\* _parse_data_message; the message is left in ret.
parse_data_message(s, header, at) ==
    IF ~Ok(s) THEN s
    ELSE Bind(lookup(s.local_mesgs, header.local_mesg_num), LAMBDA def_mesg :
            IF IsNone(def_mesg) THEN Raise(s, "FitParseError")
            ELSE decode_data(s, header, at, The(def_mesg)))

\* --------------------------------------------------------- adjust_message
\* get_field: the index in message.fields of the first field data with a
\* field definition of the asked kind and one of the asked numbers, 0 if none
get_field(fields, is_dev, def_nums) ==
    LET hits == { i \in 1..Len(fields) :
                    /\ ~IsNone(fields[i].field_def)
                    /\ The(fields[i].field_def).is_dev = is_dev
                    /\ The(fields[i].field_def).def_num \in def_nums }
    IN  IF hits = {} THEN 0 ELSE CHOOSE k \in hits : \A m \in hits : k <= m

\* copy_field: the destination takes the value of the source
copy_field(fields, src, dest) ==
    IF src # 0 /\ dest # 0
    THEN [fields EXCEPT ![dest].raw_value = fields[src].raw_value,
                        ![dest].value = fields[src].value]
    ELSE fields

\* copy_dev_to_native
copy_dev_to_native(fields, dev_ids, n_id) ==
    copy_field(fields, get_field(fields, TRUE, dev_ids), get_field(fields, FALSE, {n_id}))

\* adjust_message, of a data message
adjust_message(msg) ==
    IF msg.mesg_num = 20 THEN [msg EXCEPT !.fields = copy_dev_to_native(@, {0, 23}, 5)]
    ELSE IF msg.mesg_num = 19 THEN [msg EXCEPT !.fields = copy_dev_to_native(@, {4}, 9)]
    ELSE IF msg.mesg_num = 18
    THEN [msg EXCEPT !.fields =
            copy_dev_to_native(copy_dev_to_native(@, {7, 25}, 9), {21}, 14)]
    ELSE msg

\* ------------------------------------------------------ writing data back
\* _write_data_message: the raw values of the fields that have a definition
defined_fields(fields) == SelectSeq(fields, LAMBDA fld : ~IsNone(fld.field_def))

\* _write_raw_values_from_data_message: one _write_struct for each pair of
\* the zip of the field definitions and the raw values; the first one that
\* raises ends the loop, after the fields before it were written
RECURSIVE write_raw_values(_, _, _, _, _)
write_raw_values(s, defs, fields, i, endian) ==
    IF ~Ok(s) \/ i > Min(Len(defs), Len(fields)) THEN s
    ELSE write_raw_values(
             write_struct(s, encode_raw(defs[i], fields[i].raw_value, endian)),
             defs, fields, i + 1, endian)

\* _write_data_message
write_data_message(s, msg) ==
    write_raw_values(s, msg.def_mesg.field_defs \o msg.def_mesg.dev_field_defs,
                     defined_fields(msg.fields), 1, msg.def_mesg.endian)

\* ------------------------------------------------ developer-field registry
\* message.get(name).raw_value: the raw value of the field of that name, as
\* a sequence of at most one value; no such field raises
field_named(msg, name) ==
    LET hits == { i \in 1..Len(msg.fields) : msg.fields[i].field = name } IN
    IF hits = {} THEN NoneOf
    ELSE Some(msg.fields[CHOOSE k \in hits : \A m \in hits : k <= m].raw_value)
raw_scalar(raw_value) == IF raw_value.k = "int" THEN raw_value.v[1] ELSE None

\* add_dev_data_id
add_dev_data_id(s, msg) ==
    LET idx == field_named(msg, "developer_data_index") IN
    IF IsNone(idx) THEN Raise(s, "AttributeError")
    ELSE LET i == raw_scalar(The(idx))
             kept == { k \in DOMAIN s.dev_types.fields : k[1] # i }
         IN  [s EXCEPT !.dev_types =
                [ids |-> @.ids \cup {i}, fields |-> [k \in kept |-> @.fields[k]]]]

\* add_dev_field_description
add_dev_field_description(s, msg) ==
    LET idx == field_named(msg, "developer_data_index")
        num == field_named(msg, "field_definition_number")
        bt == field_named(msg, "fit_base_type_id")
    IN  IF IsNone(idx) \/ IsNone(num) \/ IsNone(bt) THEN Raise(s, "AttributeError")
        ELSE IF raw_scalar(The(idx)) \notin s.dev_types.ids THEN Raise(s, "FitParseError")
        ELSE LET key == << raw_scalar(The(idx)), raw_scalar(The(num)) >>
                 dev == [name |-> "dev_field", base_type |-> raw_scalar(The(bt))]
             IN  [s EXCEPT !.dev_types.fields = (key :> dev) @@ @]

\* the registration at the end of the data branch of _parse_message
register_dev(s, msg) ==
    IF ~Ok(s) THEN s
    ELSE IF msg.name = "developer_data_id" THEN add_dev_data_id(s, msg)
    ELSE IF msg.name = "field_description" THEN add_dev_field_description(s, msg)
    ELSE s

\* ------------------------------------------------------ the iteration step
\* A step that returns the message without logging it: the one C5 excludes.
append_nothing(s, message) == [s EXCEPT !.ret = << message >>]

\* self._messages.append(message)
append_message(s, message) ==
    [s EXCEPT !.logs[Len(s.logs)] = Append(@, message), !.ret = Some(message)]

\* the definition branch of _parse_message
definition_record(s, header, at) ==
    Bind(parse_definition_message(s, header, at), LAMBDA a :
        IF ~Ok(a) THEN a ELSE write_definition_message(a, The(a.ret)))

\* the data branch of _parse_message
data_record(s, header, at) ==
    Bind(parse_data_message(s, header, at), LAMBDA a :
        IF ~Ok(a) THEN a
        ELSE Bind(adjust_message(The(a.ret)), LAMBDA message :
                [register_dev(write_data_message(a, message), message)
                    EXCEPT !.ret = Some(message)]))

\* _parse_message after the record header byte was read
dispatch_record(s, header, at) ==
    Bind(IF header.is_definition
         THEN definition_record(write_message_header(s, header), header, at)
         ELSE data_record(write_message_header(s, header), header, at),
         LAMBDA m :
         IF ~Ok(m) THEN [m EXCEPT !.ret = NoneOf]
         ELSE append_message(Log(m, "record", at), The(m.ret)))

\* _parse_message from "header = self._parse_message_header()" on
parse_record(s) ==
    Bind(read_struct(s, 1), LAMBDA r :
        IF ~Ok(r) THEN r ELSE dispatch_record(r, decode_header(r.data[1]), s.pos))

\* the end-of-section branch of _parse_message up to the end-of-file test
end_of_section(s) ==
    IF ~s.complete
    THEN Bind(read_and_assert_crc(s, FALSE), LAMBDA a :
            write_crc(IF Len(a.data) = 2 THEN Log(a, "footer", s.pos) ELSE a))
    ELSE s

\* A step that reads nothing and returns nothing: what C20 excludes.
parse_message_idle(s) == [s EXCEPT !.ret = NoneOf]

\* _parse_message. A chained file makes it parse the next file header and
\* call itself; depth bounds that recursion by the number of bytes left.
RECURSIVE parse_message(_)
parse_message(s) ==
    IF ~Ok(s) THEN s
    ELSE IF s.bytes_left <= 0
    THEN Bind(end_of_section(s), LAMBDA a :
            IF ~Ok(a) THEN a
            ELSE IF ~a.fopen THEN Raise(a, "AttributeError")
            ELSE IF a.pos >= Len(file)
            THEN [close([a EXCEPT !.complete = TRUE]) EXCEPT !.ret = NoneOf]
            ELSE parse_message(parse_file_header(a)))
    ELSE parse_record(s)

\* ------------------------------------------------------------ get_messages
\* A requested name is a string or an integer.
StrName(v) == [t |-> "str", s |-> v, n |-> 0]
IntName(v) == [t |-> "int", s |-> "", n |-> v]
\* str.isdigit and int(), on the strings the model requests
DIGIT_STRINGS == ("20" :> 20) @@ ("0" :> 0) @@ ("020" :> 20)
isdigit(v) == v \in DOMAIN DIGIT_STRINGS
\* Requested names taken as they are: what C6 excludes.
keep_name(n) == n

\* int(n) if (isinstance(n, str) and n.isdigit()) else n
coerce_name(n) == IF n.t = "str" /\ isdigit(n.s) THEN IntName(DIGIT_STRINGS[n.s]) ELSE n
\* the set names of get_messages; the argument is None, one name or a list
NoName == [k |-> "none", v |-> <<>>]
OneName(n) == [k |-> "one", v |-> <<n>>]
NameList(ns) == [k |-> "list", v |-> ns]
names_of(name) == { coerce_name(name.v[i]) : i \in 1..Len(name.v) }

\* should_yield of get_messages
should_yield(message, name, with_definitions) ==
    /\ with_definitions \/ message.type = "data"
    /\ \/ name.k = "none"
       \/ StrName(message.name) \in names_of(name)
       \/ IntName(message.mesg_num) \in names_of(name)

\* a generator that get_messages() has not made yet
NoIter ==
    [ st |-> "unused", name |-> NoName, with_definitions |-> FALSE,
      lst |-> 0, idx |-> 0, yielded |-> <<>>, log_at_start |-> 0 ]

\* the first loop of get_messages ("for message in self._messages"): the
\* index in list of the next message to yield after idx, 0 if there is none
next_logged(list, idx, name, with_definitions) ==
    LET hits == { i \in (idx + 1)..Len(list) : should_yield(list[i], name, with_definitions) }
    IN  IF hits = {} THEN 0 ELSE CHOOSE k \in hits : \A m \in hits : k <= m

\* the second loop of get_messages ("while not self._complete"), up to its
\* next yield, its end or an exception
RECURSIVE live_loop(_, _, _)
live_loop(s, name, with_definitions) ==
    IF s.complete THEN [st |-> s, y |-> NoneOf, done |-> TRUE]
    ELSE Bind(parse_message([s EXCEPT !.ret = NoneOf]), LAMBDA a :
            IF ~Ok(a) THEN [st |-> a, y |-> NoneOf, done |-> TRUE]
            ELSE IF ~IsNone(a.ret) /\ should_yield(The(a.ret), name, with_definitions)
            THEN [st |-> a, y |-> a.ret, done |-> FALSE]
            ELSE live_loop(a, name, with_definitions))

\* parse(): "while self._parse_message(): pass"
RECURSIVE parse_loop(_)
parse_loop(s) ==
    Bind(parse_message([s EXCEPT !.ret = NoneOf]), LAMBDA a :
        IF ~Ok(a) \/ IsNone(a.ret) THEN a ELSE parse_loop(a))

\* ------------------------------------------------------------- the actions
\* the parser's fields take the values of s
Commit(s) ==
    /\ pos' = s.pos
    /\ fopen' = s.fopen
    /\ crc' = s.crc
    /\ out_crc' = s.out_crc
    /\ bytes_left' = s.bytes_left
    /\ complete' = s.complete
    /\ local_mesgs' = s.local_mesgs
    /\ accumulators' = s.accumulators
    /\ compressed_ts_accumulator' = s.ts
    /\ logs' = s.logs
    /\ out' = s.out
    /\ outst' = s.outst
    /\ dev_types' = s.dev_types
    /\ exc' = s.exc
    /\ ret' = s.ret
    /\ trace' = s.trace
    /\ calls' = s.calls
    /\ UNCHANGED applied

\* FitFile.__init__
construct(s) ==
    parse_file_header(
        [s EXCEPT !.outst = IF fileish = "stream"
                            THEN (IF has_sink THEN "sink" ELSE "none")
                            ELSE "missing"])

Construct ==
    /\ pc = "new"
    /\ \E s \in { construct(Self) } :
          /\ Commit(s)
          /\ pc' = IF Ok(s) THEN "ready" ELSE "failed"
    /\ UNCHANGED << file, check_crc, fileish, has_sink, iters, stepped >>

\* one call of _parse_message
ParseMessage ==
    /\ pc = "ready"
    /\ Commit(parse_message(Self))
    /\ stepped' = TRUE
    /\ UNCHANGED << file, check_crc, fileish, has_sink, pc, iters >>

\* parse()
Parse ==
    /\ pc = "ready"
    /\ Commit(parse_loop(Self))
    /\ stepped' = TRUE
    /\ UNCHANGED << file, check_crc, fileish, has_sink, pc, iters >>

\* close()
Close ==
    /\ pc = "ready"
    /\ Commit(close(Self))
    /\ UNCHANGED << file, check_crc, fileish, has_sink, pc, iters, stepped >>

\* get_messages(name, with_definitions): makes a generator; none of its code
\* has run yet
GetMessages(i, name, with_definitions) ==
    /\ pc = "ready"
    /\ iters[i].st = "unused"
    /\ \A j \in Iterators : j < i => iters[j].st # "unused"
    /\ iters' = [iters EXCEPT ![i] =
            [NoIter EXCEPT !.st = "created", !.name = name,
                           !.with_definitions = with_definitions]]
    /\ UNCHANGED << file, check_crc, fileish, has_sink, pc, pos, fopen, crc, out_crc,
                    bytes_left, complete, local_mesgs, accumulators,
                    compressed_ts_accumulator, logs, out, outst, dev_types, exc,
                    ret, trace, stepped, calls, applied >>

\* generator it at its first next(): entering the first loop binds the list
\* self._messages is at that time
started(it) ==
    IF it.st = "created"
    THEN [it EXCEPT !.lst = Len(logs), !.st = "replay", !.log_at_start = Len(logs[Len(logs)])]
    ELSE it

\* next() of generator i: runs it to its next yield, its end or an exception
IterNext(i) ==
    /\ pc = "ready"
    /\ iters[i].st \in {"created", "replay", "live"}
    /\ \E it \in { started(iters[i]) } :
       \E k \in { IF it.st = "replay"
                  THEN next_logged(logs[it.lst], it.idx, it.name, it.with_definitions)
                  ELSE 0 } :
          IF k # 0
          THEN /\ iters' = [iters EXCEPT ![i] =
                        [it EXCEPT !.idx = k, !.yielded = Append(@, logs[it.lst][k])]]
               /\ Commit([Self EXCEPT !.ret = ret])
          ELSE \E live \in { live_loop(Self, it.name, it.with_definitions) } :
               /\ iters' = [iters EXCEPT ![i] =
                        [it EXCEPT
                            !.st = IF live.done THEN "done" ELSE "live",
                            !.yielded = IF IsNone(live.y) THEN @ ELSE Append(@, The(live.y))]]
               /\ Commit(live.st)
    /\ UNCHANGED << file, check_crc, fileish, has_sink, pc, stepped >>

\* ---------------------------------------------------------------- the inputs
\* File headers. size is the header_size byte; the 12 bytes are followed by
\* what tail gives.
Header12(size, data_size) ==
    << size, 16, 100, 0 >> \o The(pack_le(data_size, 4)) \o FIT_MAGIC
HeaderCrc(h) == The(pack_le(calc_crc(h, 0), 2))
\* a section: header, records, and the footer CRC of both
Section(header, body) == header \o body \o The(pack_le(calc_crc(header \o body, 0), 2))
\* the same with the low byte of the footer flipped
BadFooter(header, body) ==
    LET c == calc_crc(header \o body, 0) IN
    header \o body \o << (255 - (c % 256)), c \div 256 >>
ZeroFooter(header, body) == header \o body \o << 0, 0 >>
Plain(body) == Section(Header12(12, Len(body)), body)

\* Records.
\* definition, local 0, little-endian, file_id, no fields
DefFileId == << 64, 0, 0, 0, 0, 0 >>
\* definition, local 0, little-endian, record: timestamp (uint8) and
\* compressed_speed_distance (byte[3])
DefRecord == << 64, 0, 0, 20, 0, 2, 253, 1, 2, 8, 3, 13 >>
\* definition, local 1, big-endian, record: speed (uint16)
DefSpeedBE == << 65, 0, 1, 0, 20, 1, 6, 2, 132 >>
\* data records for local 0 (against DefRecord) and local 1
DataRecord == << 0, 7, 1, 32, 0 >>
DataRecordLow == << 0, 3, 2, 16, 0 >>
DataSpeed == << 1, 1, 2 >>
\* compressed-timestamp data records: local 0 offset 5, local 1 offset 3
DataCompressed == << 133, 9, 3, 48, 0 >>
DataCompressedSpeed == << 163, 2, 1 >>
\* a data record with no fields, local 0 (against DefFileId)
DataEmpty == << 0 >>

\* definition, local 0, event: event (enum) and data (uint8); data records
\* with event 42 (one of the two references of gear_change_data), 0
\* (timer_trigger) and 5 (no sub-field)
DefEvent == << 64, 0, 0, 21, 0, 2, 0, 1, 0, 3, 1, 2 >>
DataGear == << 0, 42, 7 >>
DataTimer == << 0, 0, 7 >>
DataOther == << 0, 5, 7 >>
\* definition, local 0, packed: packed (uint32); data records with the raw
\* values 0x00010002 and 0x00000001
DefPacked == << 64, 0, 0, 22, 0, 1, 0, 4, 134 >>
DataPacked == << 0, 2, 0, 1, 0 >>
DataPackedNext == << 0, 1, 0, 0, 0 >>
\* definition, local 0, counter: kind (enum) and data (uint8); data records
\* with kind 0 (no sub-field) and kind 1 (the sub-field ticks)
DefCounter == << 64, 0, 0, 23, 0, 2, 0, 1, 0, 1, 1, 2 >>
DataCounterPlain == << 0, 0, 5 >>
DataCounterTicks == << 0, 1, 5 >>

Alphabet ==
    { DefFileId, DefRecord, DefSpeedBE, DataRecord, DataSpeed, DataCompressed, DataEmpty }

GeneratedBodies == { Flatten(q) : q \in SeqsUpTo(Alphabet, MaxRecs) }

\* record sections of well-formed files with more records
ScenarioBodies ==
    { DefRecord \o DataRecord \o DataCompressed \o DataRecordLow,
      DefFileId \o DataEmpty \o DefRecord \o DataRecord,
      DefRecord \o DefSpeedBE \o DataSpeed \o DataCompressedSpeed \o DataRecord,
      DefEvent \o DataGear \o DataTimer \o DataOther,
      DefPacked \o DataPacked \o DataPackedNext,
      DefCounter \o DataCounterPlain \o DataCounterTicks,
      \* the reserved bit 4 of the record header set, an unknown base type 9
      << 80, 0, 0, 0, 0, 1, 0, 1, 9 >> \o << 16, 5 >>,
      \* developer fields: developer_data_id, field_description, then a
      \* record with a native distance and a developer field 0
      << 64, 0, 0, 207, 0, 1, 3, 1, 2 >> \o << 0, 0 >>
        \o << 65, 0, 0, 206, 0, 3, 0, 1, 2, 1, 1, 2, 2, 1, 2 >> \o << 1, 0, 0, 2 >>
        \o << 98, 0, 0, 20, 0, 1, 5, 1, 2, 1, 0, 1, 0 >> \o << 2, 4, 9 >> }

HeaderVariants(body) ==
    LET n == Len(body)
        h14 == Header12(14, n)
        h16 == Header12(16, n)
    IN  { Section(h14 \o HeaderCrc(h14), body),
          Section(h14 \o << 0, 0 >>, body),
          Section(h14 \o << 1, 2 >>, body),
          Section(h16 \o HeaderCrc(h16) \o << 7, 7 >>, body),
          Section(Header12(13, n) \o << 0 >>, body),
          Section(Header12(11, n), body),
          Section(Header12(0, n), body),
          Section(<< 12, 16, 100, 0 >> \o The(pack_le(n, 4)) \o << 46, 70, 73, 88 >>, body),
          << 12, 16, 100, 0, 0 >>,
          <<>>,
          h14 \o << 3 >> }

FooterVariants(body) ==
    LET h == Header12(12, Len(body)) IN
    { BadFooter(h, body), ZeroFooter(h, body), h \o body \o << 9 >>, h \o body }

ChainedFiles ==
    { Plain(DefFileId) \o Plain(DefFileId),
      Plain(DefRecord \o DataRecord) \o Plain(DefRecord \o DataCompressed),
      Plain(DefRecord \o DataRecord) \o Plain(DataRecord),
      Plain(DefFileId) \o Plain(<<>>) \o Plain(DefSpeedBE \o DataSpeed),
      BadFooter(Header12(12, 6), DefFileId) \o Plain(DefFileId),
      Plain(DefFileId) \o << 1, 2, 3 >> }

\* data_size smaller or larger than the record section
SizeVariants ==
    { Section(Header12(12, 8), DefRecord \o DataRecord),
      Section(Header12(12, 20), DefRecord \o DataRecord),
      Section(Header12(12, 0), <<>>) }

Files ==
    { Plain(b) : b \in GeneratedBodies \cup ScenarioBodies }
    \cup HeaderVariants(DefFileId) \cup FooterVariants(DefFileId)
    \cup FooterVariants(DefRecord \o DataRecord)
    \cup ChainedFiles \cup SizeVariants

\* the files parsed with check_crc false too, and those parsed without a
\* sink too
CrcFiles ==
    HeaderVariants(DefFileId) \cup FooterVariants(DefFileId)
    \cup FooterVariants(DefRecord \o DataRecord) \cup ChainedFiles
    \cup { Plain(DefFileId), Plain(DefRecord \o DataRecord) }
NoSinkFiles ==
    { Plain(b) : b \in ScenarioBodies } \cup HeaderVariants(DefFileId)
    \cup { Plain(DefFileId), Plain(DefRecord \o DataRecord) }

\* the arguments of get_messages the model calls it with
NameArgs ==
    { NoName, OneName(StrName("20")), OneName(StrName("record")),
      NameList(<< StrName("file_id"), IntName(21) >>) }

\* --------------------------------------------------------- the specification
\* nothing of the parser exists yet
Unstarted ==
    /\ pc = "new"
    /\ pos = 0
    /\ fopen = TRUE
    /\ crc = 0
    /\ out_crc = 0
    /\ bytes_left = 0 - 1
    /\ complete = FALSE
    /\ local_mesgs = EmptyMap
    /\ accumulators = EmptyMap
    /\ compressed_ts_accumulator = RawInt(0)
    /\ logs = <<>>
    /\ out = <<>>
    /\ outst = "none"
    /\ dev_types = NoDevTypes
    /\ exc = "none"
    /\ ret = NoneOf
    /\ trace = <<>>
    /\ stepped = FALSE
    /\ iters = [i \in Iterators |-> NoIter]
    /\ calls = <<>>

Init ==
    /\ file \in Files
    /\ check_crc \in (IF file \in CrcFiles THEN BOOLEAN ELSE {TRUE})
    /\ has_sink \in (IF file \in NoSinkFiles THEN BOOLEAN ELSE {TRUE})
    /\ fileish \in (IF file = Plain(DefFileId) /\ check_crc
                    THEN {"stream", "path", "bytes"} ELSE {"stream"})
    /\ Unstarted
    /\ applied = <<>>

Next ==
    \/ Construct
    \/ ParseMessage
    \/ Parse
    \/ Close
    \/ \E i \in Solo, name \in NameArgs, with_definitions \in BOOLEAN :
            GetMessages(i, name, with_definitions)
    \/ \E i \in Solo : IterNext(i)

Spec == Init /\ [][Next]_vars

\* One iteration of get_messages(), on a parser that is fresh or on which
\* _parse_message was called some times before the iteration started.
ParseAhead ==
    /\ \A i \in Iterators : iters[i].st \in {"unused", "created"}
    /\ ParseMessage

NextIteration ==
    \/ Construct
    \/ ParseAhead
    \/ \E i \in Solo, name \in NameArgs, with_definitions \in BOOLEAN :
            GetMessages(i, name, with_definitions)
    \/ \E i \in Solo : IterNext(i)

SpecIteration == Init /\ [][NextIteration]_vars

\* ---------------------------------------------------- several iterations
\* Two generators of get_messages() on one parser, made at any time and
\* advanced in any interleaving, over well-formed files (single and chained)
\* that parse without error.
InterleavedFiles ==
    { Plain(DefRecord \o DataRecord \o DataCompressed \o DataRecordLow),
      Plain(DefFileId \o DataEmpty \o DefRecord \o DataRecord),
      Plain(DefEvent \o DataGear \o DataTimer \o DataOther),
      Plain(DefFileId) \o Plain(DefFileId),
      Plain(DefRecord \o DataRecord) \o Plain(DefRecord \o DataCompressed),
      Plain(DefFileId) \o Plain(<<>>) \o Plain(DefSpeedBE \o DataSpeed) }

InitInterleaved ==
    /\ Init
    /\ file \in InterleavedFiles
    /\ check_crc
    /\ has_sink

NextInterleaved ==
    \/ Construct
    \/ \E i \in Iterators, name \in NameArgs, with_definitions \in BOOLEAN :
            GetMessages(i, name, with_definitions)
    \/ \E i \in Iterators : IterNext(i)

SpecInterleaved == InitInterleaved /\ [][NextInterleaved]_vars

\* ------------------------------------------------ stepping to the end
\* The caller of parse(), or of a generator run to its end: _parse_message is
\* called again and again, until it reports the end or raises.
Stopped == pc = "failed" \/ complete \/ exc # "none"

Step ==
    /\ ~Stopped
    /\ ParseMessage

NextStep ==
    \/ Construct
    \/ Step

\* Weak fairness of the constructor and of the step, with the enabling
\* conditions written out: the constructor can run exactly when pc is "new",
\* and a step, which always sets stepped, raises or moves the read position,
\* exactly when the parser is ready and has not stopped.
StepDue == pc = "ready" /\ ~Stopped
FairConstruct == []<>(pc # "new") \/ []<><<Construct>>_vars
FairStep == []<>(~StepDue) \/ []<><<Step>>_vars

SpecStep == Init /\ [][NextStep]_vars /\ FairConstruct /\ FairStep

\* ------------------------------------------- the bit accumulator on its own
\* _apply_compressed_accumulation applied over and over to a rolling value:
\* each result is the stored value of the next call.
MaxBits == 5
MaxCalls == 3
StoredSeeds == { 0, 7, 100, Pow2(30) - 8 }

InitAccumulate ==
    /\ file = <<>>
    /\ check_crc = TRUE
    /\ has_sink = FALSE
    /\ fileish = "stream"
    /\ Unstarted
    /\ \E seed \in StoredSeeds :
          applied = [n |-> 0, raw_value |-> 0, accumulation |-> seed, num_bits |-> 0,
                     result |-> seed]

Accumulate(raw_value, num_bits) ==
    /\ applied.n < MaxCalls
    /\ applied' = [n |-> applied.n + 1, raw_value |-> raw_value,
                   accumulation |-> applied.result, num_bits |-> num_bits,
                   result |-> apply_compressed_accumulation(raw_value, applied.result,
                                                            num_bits)]
    /\ UNCHANGED << file, check_crc, fileish, pc, pos, fopen, crc, out_crc, bytes_left,
                    complete, local_mesgs, accumulators, compressed_ts_accumulator,
                    logs, out, outst, dev_types, exc, ret, trace, stepped, has_sink,
                    iters, calls >>

NextAccumulate ==
    \E num_bits \in 1..MaxBits : \E raw_value \in 0..(Pow2(num_bits) - 1) :
        Accumulate(raw_value, num_bits)

SpecAccumulate == InitAccumulate /\ [][NextAccumulate]_vars

\* ------------------------------------- the timestamp accumulator on its own
\* The compressed-timestamp state over a sequence of data records, with the
\* values the parser computes as unbounded integers kept as two digits of
\* base 2^16: hi * 2^16 + lo, lo below 2^16, hi as large as it gets.
Wide(hi, lo) == [k |-> "wide", v |-> << hi, lo >>]
Carry(hi, lo) == Wide(hi + (lo \div Pow2(16)), lo % Pow2(16))

\* the accumulator as a wide value: a small integer has hi 0
widened(raw) == IF raw.k = "int" THEN Wide(0, raw.v[1]) ELSE raw

\* the raw value of a uint32 timestamp field, read little-endian from four
\* bytes: none for the invalid value 0xFFFFFFFF
parse_timestamp(bytes) ==
    IF bytes = << 255, 255, 255, 255 >> THEN RawNone
    ELSE Wide(unpack_le(SubSeq(bytes, 3, 4)), unpack_le(SubSeq(bytes, 1, 2)))

\* _apply_compressed_accumulation on a wide accumulation, for num_bits up to
\* 16: the bits below num_bits are all in lo
apply_compressed_accumulation_wide(raw_value, accumulation, num_bits) ==
    LET max_value == Pow2(num_bits)
        low == accumulation.v[2] % max_value
        base_value == raw_value + (accumulation.v[2] - low)
    IN  Carry(accumulation.v[1],
              IF raw_value < low THEN base_value + max_value ELSE base_value)

\* the timestamp fields the records carry: none, or four bytes
TimestampBytes ==
    { <<>>, << 0, 0, 0, 0 >>, << 248, 255, 255, 63 >>, << 224, 255, 255, 255 >>,
      << 254, 255, 255, 255 >>, << 255, 255, 255, 255 >> }
TimeOffsets == { None } \cup (0..31)

InitTimestamp ==
    /\ file = <<>>
    /\ check_crc = TRUE
    /\ has_sink = FALSE
    /\ fileish = "stream"
    /\ Unstarted
    /\ applied = [n |-> 0, raw_value |-> RawNone, time_offset |-> None, result |-> RawNone]

\* One data record: the timestamp field it may carry, then the time offset
\* its header may carry; result is the raw value of the synthetic timestamp.
TimestampRecord(bytes, time_offset) ==
    /\ applied.n < MaxCalls
    /\ \E raw_value \in { IF bytes = <<>> THEN RawNone ELSE parse_timestamp(bytes) } :
       \E updated \in { widened(IF raw_value.k # "none" THEN raw_value
                                ELSE compressed_ts_accumulator) } :
       \E after \in { IF time_offset = None THEN updated
                      ELSE apply_compressed_accumulation_wide(time_offset, updated, 5) } :
          /\ compressed_ts_accumulator' = after
          /\ applied' = [n |-> applied.n + 1, raw_value |-> raw_value,
                         time_offset |-> time_offset,
                         result |-> IF time_offset = None THEN RawNone ELSE after]
    /\ UNCHANGED << file, check_crc, fileish, pc, pos, fopen, crc, out_crc, bytes_left,
                    complete, local_mesgs, accumulators, logs, out, outst, dev_types,
                    exc, ret, trace, stepped, has_sink, iters, calls >>

NextTimestamp ==
    \E bytes \in TimestampBytes, time_offset \in TimeOffsets :
        TimestampRecord(bytes, time_offset)

SpecTimestamp == InitTimestamp /\ [][NextTimestamp]_vars

\* ================================================================ the claims
\* every message of every list self._messages was bound to
Messages == Flatten(logs)
\* the definitions among the first i - 1 messages of list L for local slot n
DefsBefore(L, i, n) ==
    { j \in 1..(i - 1) : L[j].type = "definition" /\ L[j].header.local_mesg_num = n }
LatestDef(L, i, n) ==
    L[CHOOSE j \in DefsBefore(L, i, n) : \A k \in DefsBefore(L, i, n) : k <= j]
\* the local slots that have a definition in the current section
InstalledSlots ==
    IF logs = <<>> THEN {}
    ELSE { n \in 0..15 : DefsBefore(Last(logs), Len(Last(logs)) + 1, n) # {} }

\* The record header byte, read from the FIT layout: bit 7 marks a
\* compressed-timestamp header, whose slot is bits 5-6; a normal header has
\* the definition flag in bit 6 and the slot in bits 0-3.
HeaderLocal(b) == IF b >= 128 THEN (b \div 32) % 4 ELSE b % 16
HeaderIsData(b) == (b >= 128) \/ (((b \div 64) % 2) = 0)

\* the next call of _parse_message reads a record header
RecordDue == pc = "ready" /\ fopen /\ bytes_left > 0 /\ pos < Len(file)
UninstalledDue ==
    /\ RecordDue
    /\ HeaderIsData(file[pos + 1])
    /\ HeaderLocal(file[pos + 1]) \notin InstalledSlots

LocalInRange(m) ==
    LET b == file[m.at + 1] IN
    /\ m.header.local_mesg_num = HeaderLocal(b)
    /\ m.header.local_mesg_num \in 0..15
    /\ (b >= 128) => (m.header.local_mesg_num \in 0..3)

C1Step ==
    /\ \A l \in 1..Len(logs') : \A i \in 1..Len(logs'[l]) : LocalInRange(logs'[l][i])
    /\ (UninstalledDue /\ pos' # pos) =>
          /\ exc' = "FitParseError"
          /\ pos' = pos + 1
          /\ ret' = NoneOf
          /\ logs' = logs

\* C1: the local_mesg_num of every record header is the slot its byte holds,
\* in 0..15 (0..3 for a compressed-timestamp header); a call that reads a
\* data record header, normal or compressed, whose slot has no definition in
\* the current section raises FitParseError after that one byte and returns
\* and logs no message.
C1_UninstalledSlotRejected == [][C1Step]_vars

\* a compressed-timestamp data record was rejected while another slot had a
\* definition
C1_Witness ==
    /\ pc = "ready" /\ exc = "FitParseError" /\ pos > 0 /\ bytes_left >= 0
    /\ file[pos] >= 128
    /\ InstalledSlots # {}
    /\ HeaderLocal(file[pos]) \notin InstalledSlots

\* C2: every data message carries as def_mesg the latest definition logged
\* before it for its local slot, and the local-message table holds, for every
\* slot, exactly the latest definition of the current section: an
\* installation replaces the slot's entry and no other.
C2_LatestDefinitionPerSlot ==
    /\ \A l \in 1..Len(logs) : \A i \in 1..Len(logs[l]) :
          LET m == logs[l][i] IN
          (m.type = "data") =>
             /\ DefsBefore(logs[l], i, m.header.local_mesg_num) # {}
             /\ m.def_mesg = LatestDef(logs[l], i, m.header.local_mesg_num)
    /\ DOMAIN local_mesgs = InstalledSlots
    /\ \A n \in InstalledSlots :
          local_mesgs[n] = LatestDef(Last(logs), Len(Last(logs)) + 1, n)

\* a slot was redefined and a later data record was decoded with the second
\* definition
C2_Witness ==
    \E l \in 1..Len(logs) : \E i, j, k \in 1..Len(logs[l]) :
        /\ i < j /\ j < k
        /\ logs[l][i].type = "definition" /\ logs[l][j].type = "definition"
        /\ logs[l][i].header.local_mesg_num = logs[l][j].header.local_mesg_num
        /\ logs[l][i].mesg_num # logs[l][j].mesg_num
        /\ logs[l][k].type = "data"
        /\ logs[l][k].def_mesg = logs[l][j]

\* ---- C3
HeaderEvents == { i \in 1..Len(trace) : trace[i].k = "header" }
\* the offset of the file header of the current section
SectionStart == trace[CHOOSE i \in HeaderEvents : \A j \in HeaderEvents : j <= i].at
\* the CRC of the bytes of the current section read so far
SectionCrc == calc_crc(Slice(file, SectionStart, pos - SectionStart), 0)
\* the next call of _parse_message reads a footer, which the file holds
FooterDue ==
    pc = "ready" /\ fopen /\ bytes_left <= 0 /\ ~complete /\ pos + 2 <= Len(file)
FooterValue == file[pos + 1] + 256 * file[pos + 2]
FooterEvent == [k |-> "footer", at |-> pos, snap |-> <<>>]
ZeroHeaderCrc ==
    /\ Len(file) >= 14 /\ file[1] = 14
    /\ SubSeq(file, 9, 12) = << 46, 70, 73, 84 >>
    /\ file[13] = 0 /\ file[14] = 0

C3Step ==
    /\ (FooterDue /\ pos' # pos) =>
          IF check_crc /\ FooterValue # SectionCrc
          THEN /\ exc' = "FitCRCError"
               /\ pos' = pos + 2
               /\ trace' = Append(trace, FooterEvent)
               /\ logs' = logs
               /\ ~complete'
          ELSE /\ Len(trace') > Len(trace)
               /\ trace'[Len(trace) + 1] = FooterEvent
               /\ (pos + 2 >= Len(file)) =>
                     (complete' /\ exc' = "none" /\ logs' = logs /\ pos' = Len(file))
               /\ (pos + 2 < Len(file)) =>
                     /\ Len(trace') > Len(trace) + 1
                     /\ trace'[Len(trace) + 2].k = "header"
                     /\ trace'[Len(trace) + 2].at = pos + 2
    /\ (pc = "new" /\ fileish = "stream" /\ ZeroHeaderCrc) => (pc' = "ready")

\* C3: the call that reads a section's footer compares its little-endian
\* value with the CRC of the section's bytes before the footer. With
\* check_crc a mismatch, a footer of 0 included, raises FitCRCError and
\* nothing else happens; without check_crc, or when the values agree, the
\* footer is accepted: the parse is complete with the messages it had when
\* the file ends there, and goes on to the next file header otherwise. A
\* header CRC of 0 is accepted.
C3_FooterCrc == [][C3Step]_vars

\* a footer of 0 was rejected
C3_Witness ==
    /\ pc = "ready" /\ check_crc /\ exc = "FitCRCError"
    /\ pos = Len(file) /\ file[pos] = 0 /\ file[pos - 1] = 0
    /\ trace[Len(trace)].k = "footer"

\* ---- C4
Ats(q) == [i \in 1..Len(q) |-> q[i].at]
RecordEvents == SelectSeq(trace, LAMBDA e : e.k = "record")
Increasing(q) == \A i \in 1..(Len(q) - 1) : q[i] < q[i + 1]
\* no call raised: under SpecIteration an exception ends the iteration
NeverRaised == ~stepped /\ exc = "none"
\* the file header under which the byte at offset at was read
SectionOf(at) ==
    CHOOSE i \in HeaderEvents :
        /\ trace[i].at <= at
        /\ \A j \in HeaderEvents : trace[j].at <= at => j <= i

TraceWellShaped ==
    \A i \in 1..Len(trace) :
        /\ (trace[i].k = "header") =>
              /\ (i = 1) \/ (trace[i - 1].k = "footer" /\ trace[i - 1].at + 2 = trace[i].at)
              /\ (i < Len(trace)) => (trace[i + 1].k = "entered")
        /\ (trace[i].k = "entered") => (i > 1 /\ trace[i - 1].k = "header")
        /\ (trace[i].k = "record") => (i > 1 /\ trace[i - 1].k \in {"entered", "record"})
        /\ (trace[i].k = "footer") =>
              /\ i > 1 /\ trace[i - 1].k \in {"entered", "record"}
              /\ (i < Len(trace)) => (trace[i + 1].k = "header")
        /\ (i < Len(trace)) => (trace[i].at <= trace[i + 1].at)

SameSectionDefs ==
    \A i \in 1..Len(Messages) :
        (Messages[i].type = "data") =>
            SectionOf(Messages[i].def_mesg.at) = SectionOf(Messages[i].at)

EnteredReset ==
    \A i \in 1..Len(trace) :
        (trace[i].k = "entered") =>
            LET h == trace[i - 1].at
                after == trace[i].snap[1]
            IN  /\ after.crc = calc_crc(Slice(file, h, trace[i].at - h), 0)
                /\ after.bytes_left = file[h + 5] + 256 * file[h + 6]
                                      + 65536 * file[h + 7] + 16777216 * file[h + 8]
                /\ after.local_mesgs = <<>>
                /\ after.accumulators = <<>>
                /\ after.ts = [k |-> "int", v |-> << 0 >>]
                /\ after.logged = 0

FullIteration(it) ==
    it.st \in {"replay", "live", "done"} /\ it.name.k = "none" /\ it.with_definitions

\* C4: an iteration that raises nothing reads, per file, the header, the
\* records, then the footer once, and only then the next header; it yields
\* the records of all the files in file order and ends complete at the end
\* of the input. Every accepted file header leaves the CRC of its own bytes,
\* bytes_left = data_size, an empty local-message table, no accumulators and
\* a compressed-timestamp accumulator of 0, and every data message is decoded
\* with a definition of its own section.
C4_ChainedSections ==
    /\ SameSectionDefs
    /\ EnteredReset
    /\ NeverRaised =>
          /\ TraceWellShaped
          /\ \A i \in Iterators :
                FullIteration(iters[i]) =>
                   /\ Ats(iters[i].yielded) = Ats(RecordEvents)
                   /\ Increasing(Ats(iters[i].yielded))
                   /\ (iters[i].st = "done") =>
                         /\ complete /\ pos = Len(file)
                         /\ trace[Len(trace)].k = "footer"

\* the iteration over two chained files ended, having yielded four records
C4_Witness ==
    /\ NeverRaised /\ complete
    /\ Cardinality(HeaderEvents) >= 2
    /\ \E i \in Iterators :
          /\ FullIteration(iters[i]) /\ iters[i].st = "done"
          /\ Len(iters[i].yielded) >= 4
          /\ SectionOf(iters[i].yielded[4].at) > 1

\* ---- C5
\* C5: an iteration without filter and with definitions, on a parser nothing
\* else was called on, has yielded exactly the messages of the log, in the
\* order of the log; while nothing is raised these are the records read, at
\* strictly increasing offsets, and the iteration has ended exactly when the
\* parser is complete, which it is at the end of the input.
C5_SingleIteration ==
    \A i \in Iterators :
        (FullIteration(iters[i]) /\ ~stepped) =>
            /\ iters[i].yielded = Messages
            /\ (exc = "none") =>
                  /\ Ats(Messages) = Ats(RecordEvents)
                  /\ Increasing(Ats(Messages))
                  /\ (iters[i].st = "done") <=> complete
                  /\ complete => (pos = Len(file))

\* the iteration over one file ended after a definition and data records
C5_Witness ==
    /\ ~stepped /\ exc = "none" /\ complete /\ Cardinality(HeaderEvents) = 1
    /\ \E i \in Iterators :
          /\ FullIteration(iters[i]) /\ iters[i].st = "done"
          /\ Len(iters[i].yielded) >= 3
          /\ iters[i].yielded[1].type = "definition"
          /\ iters[i].yielded[3].type = "data"

\* ---- C6
\* a requested name selects the message: a string of digits by the number
\* it denotes, another string by the message name, an integer by the number
Matches(r, m) ==
    IF r.t = "int" THEN r.n = m.mesg_num
    ELSE IF r.s \in DOMAIN DIGIT_STRINGS THEN DIGIT_STRINGS[r.s] = m.mesg_num
    ELSE r.s = m.name
Wanted(m, name, with_definitions) ==
    /\ with_definitions \/ m.type = "data"
    /\ (name.k = "none") \/ (\E j \in 1..Len(name.v) : Matches(name.v[j], m))
\* the messages generator it has gone past
Seen(it) ==
    IF it.st = "replay" THEN SubSeq(logs[it.lst], 1, it.idx)
    ELSE Flatten(SubSeq(logs, it.lst, Len(logs)))

\* C6: a generator has yielded, of the messages it has gone past, exactly
\* those that are data messages (or any, with definitions) and that the
\* requested names select (or any, without names), a string of digits
\* selecting by number; it yields no definition without with_definitions;
\* and whatever the filter, an iteration that ends without raising has
\* completed the parse and every record read is in the log.
C6_Filter ==
    \A i \in Iterators :
        LET it == iters[i] IN
        (it.st \in {"replay", "live", "done"}) =>
            /\ it.yielded =
                  SelectSeq(Seen(it), LAMBDA m : Wanted(m, it.name, it.with_definitions))
            /\ ~it.with_definitions =>
                  (\A j \in 1..Len(it.yielded) : it.yielded[j].type = "data")
            /\ (it.st = "done" /\ exc = "none") =>
                  (complete /\ Ats(Messages) = Ats(RecordEvents))

\* get_messages("20") ended, having yielded record messages, one of them
\* from the log, and having skipped other messages
C6_Witness ==
    \E i \in Iterators :
        /\ iters[i].st = "done" /\ exc = "none"
        /\ iters[i].name = [k |-> "one", v |-> << [t |-> "str", s |-> "20", n |-> 0] >>]
        /\ ~iters[i].with_definitions
        /\ iters[i].log_at_start > 0 /\ iters[i].idx > 0
        /\ Len(iters[i].yielded) >= 2
        /\ Len(iters[i].yielded) < Len(Messages)

\* ---- C7
\* the offsets (from 1) of the CRC bytes of the file headers and footers,
\* and of the reserved byte of the definition records
CrcPositions ==
    UNION { IF trace[i].k = "footer" THEN { trace[i].at + 1, trace[i].at + 2 }
            ELSE IF trace[i].k = "header" /\ file[trace[i].at + 1] >= 14
            THEN { trace[i].at + 13, trace[i].at + 14 }
            ELSE {} : i \in 1..Len(trace) }
ReservedPositions ==
    { Messages[i].at + 2 : i \in { j \in 1..Len(Messages) : Messages[j].type = "definition" } }

\* C7, as the specification states it: once an iteration that raised nothing
\* has completed with a sink, the sink holds the bytes of the input, the
\* reserved byte of every definition record written as 0 (the CRC bytes of
\* headers and footers are left out of the comparison). The code does not
\* satisfy it.
C7_RewriteIdentical ==
    (NeverRaised /\ complete /\ has_sink /\ fileish = "stream") =>
        /\ Len(out) = Len(file)
        /\ \A i \in 1..Len(file) :
              \/ i \in CrcPositions
              \/ out[i] = (IF i \in ReservedPositions THEN 0 ELSE file[i])

\* ---- C8
HeaderMagicOk == Len(file) >= 12 /\ SubSeq(file, 9, 12) = << 46, 70, 73, 84 >>
HeaderCrcOk ==
    /\ Len(file) >= 14
    /\ check_crc =>
          LET c == file[13] + 256 * file[14] IN
          (c = 0) \/ (c = calc_crc(SubSeq(file, 1, 12), 0))
\* what C8 says an acceptable header is
HeaderAcceptable ==
    /\ HeaderMagicOk
    /\ (file[1] = 12) \/ (file[1] >= 14 /\ HeaderCrcOk)
\* the same with what the code takes a header_size below 12 for
HeaderAccepted ==
    /\ HeaderMagicOk
    /\ (file[1] <= 12) \/ (file[1] >= 14 /\ HeaderCrcOk)
DataSizes ==
    \A i \in 1..Len(trace) :
        (trace[i].k = "entered") =>
            LET h == trace[i - 1].at IN
            trace[i].snap[1].bytes_left =
                file[h + 5] + 256 * file[h + 6] + 65536 * file[h + 7] + 16777216 * file[h + 8]

\* C8, as the specification states it: the constructor returns exactly for
\* the acceptable headers, a header with a wrong magic, a header_size of 13
\* or one below 12 raises FitHeaderError, and an accepted header leaves
\* bytes_left = data_size. The code does not satisfy it.
C8_HeaderAcceptance ==
    (fileish = "stream") =>
        /\ (pc = "ready") => HeaderAcceptable
        /\ (pc = "failed") =>
              /\ ~HeaderAcceptable
              /\ (~HeaderMagicOk \/ file[1] = 13 \/ file[1] < 12) => (exc = "FitHeaderError")
        /\ DataSizes

\* ---- C9
FitErrors == { "FitHeaderError", "FitEOFError", "FitCRCError", "FitParseError" }
C9Step ==
    (pc = "ready" /\ exc \in FitErrors) =>
        (~fopen /\ pos' = pos /\ logs' = logs)

\* C9, as the specification states it: when a call has raised a parse error
\* the stream is closed, and no later call reads a byte or logs a message.
\* The code does not satisfy it.
C9_ErrorsAreFatal == [][C9Step]_vars

\* ---- C10
DefinedEntries(m) == SelectSeq(m.fields, LAMBDA f : f.field_def # <<>>)
TimestampEntries(m) == { j \in 1..Len(m.fields) : m.fields[j].origin = "timestamp" }
FieldsMatchDefinition(m) ==
    LET defs == m.def_mesg.field_defs \o m.def_mesg.dev_field_defs
        defined == DefinedEntries(m)
    IN  /\ Len(defined) = Len(defs)
        /\ \A j \in 1..Len(defs) :
              defined[j].field_def = << defs[j] >> /\ defined[j].origin = "field"
        /\ \A j \in 1..Len(m.fields) :
              (m.fields[j].field_def = <<>>) =>
                  m.fields[j].origin \in { "component", "timestamp" }
        /\ Cardinality(TimestampEntries(m)) = (IF file[m.at + 1] >= 128 THEN 1 ELSE 0)
        /\ \A j \in TimestampEntries(m) :
              j = Len(m.fields) /\ m.fields[j].field = "timestamp"

\* C10: in every data message the entries with a field definition are, in
\* order, those of def_mesg.field_defs followed by def_mesg.dev_field_defs;
\* every other entry is a component expansion or the synthetic timestamp,
\* of which there is one, the last entry, exactly when the record header
\* byte is a compressed-timestamp header.
C10_FieldsFollowDefinition ==
    \A i \in 1..Len(Messages) :
        (Messages[i].type = "data") => FieldsMatchDefinition(Messages[i])

\* a compressed-timestamp record with two defined fields and component
\* expansions was logged
C10_Witness ==
    \E i \in 1..Len(Messages) :
        LET m == Messages[i] IN
        /\ m.type = "data"
        /\ file[m.at + 1] >= 128
        /\ Len(DefinedEntries(m)) >= 2
        /\ \E j \in 1..Len(m.fields) : m.fields[j].origin = "component"
        /\ m.fields[Len(m.fields)].origin = "timestamp"

\* ---- C11
\* C11, as the specification states it: a parser made without a sink never
\* fails for want of one, so its constructor fails only with an error of the
\* file header. The code does not satisfy it.
C11_NoSinkNoFailure ==
    (pc = "failed" /\ ~has_sink) => (exc \in FitErrors)

\* ---- C12
DataMessages == { k \in 1..Len(Messages) : Messages[k].type = "data" }
ComponentEntries(fields) == { j \in 1..Len(fields) : fields[j].origin = "component" }
\* the entries j..k-1 are components of the field whose entry is at k
RunBefore(fields, j, k) ==
    /\ fields[k].origin = "field"
    /\ \A l \in j..(k - 1) :
          fields[l].origin = "component" /\ fields[l].of = fields[k].of
\* the entries k+1..j are components of the field whose entry is at k
RunAfter(fields, k, j) ==
    /\ fields[k].origin = "field"
    /\ \A l \in (k + 1)..j :
          fields[l].origin = "component" /\ fields[l].of = fields[k].of

\* C12, amended: within the fields of every data message, the entries made
\* from a field's components come immediately before the entry of the field
\* they were expanded from, hence after the entry of the previous defined
\* field.
C12_ComponentsPrecedeField ==
    \A m \in DataMessages : \A j \in ComponentEntries(Messages[m].fields) :
        \E k \in (j + 1)..Len(Messages[m].fields) : RunBefore(Messages[m].fields, j, k)

\* C12, as the specification states it: the entries made from a field's
\* components come after the entry of the field they were expanded from and
\* before the entry of the next defined field.
C12_ComponentsFollowField ==
    \A m \in DataMessages : \A j \in ComponentEntries(Messages[m].fields) :
        \E k \in 1..(j - 1) : RunAfter(Messages[m].fields, k, j)

\* a logged data message whose second field was expanded into two components
C12_Witness ==
    \E m \in DataMessages :
        /\ Cardinality(ComponentEntries(Messages[m].fields)) = 2
        /\ \A j \in ComponentEntries(Messages[m].fields) : Messages[m].fields[j].of = 2

\* ---- C13
\* the entries of a message made by the loop over the native field definitions
NativeEntries(fields) ==
    { j \in 1..Len(fields) : fields[j].origin = "field" /\ ~The(fields[j].field_def).is_dev }
\* a reference constraint is met by a field of the record
RefMet(ref, fields) ==
    \E j \in NativeEntries(fields) :
        /\ The(fields[j].field_def).def_num = ref.def_num
        /\ fields[j].raw_value = RawInt(ref.raw_value)
AnyRefMet(sub, fields) == \E r \in 1..Len(sub.ref_fields) : RefMet(sub.ref_fields[r], fields)
AllRefsMet(sub, fields) == \A r \in 1..Len(sub.ref_fields) : RefMet(sub.ref_fields[r], fields)
\* the entry at j carries the first sub-field of its field that is in hits,
\* with the field as parent, or the field itself and no parent
CarriesFirstOf(entry, field, hits) ==
    IF hits = {}
    THEN entry.field = field.name /\ entry.parent_field = ""
    ELSE /\ entry.field = field.subfields[CHOOSE k \in hits : \A l \in hits : k <= l].name
         /\ entry.parent_field = field.name
ProfileEntries(fields) ==
    { j \in 1..Len(fields) :
        fields[j].origin = "field" /\ ~IsNone(The(fields[j].field_def).field) }
SubfieldEntries(fields) ==
    { j \in ProfileEntries(fields) : The(The(fields[j].field_def).field).subfields # <<>> }

\* C13, amended: sub-field resolution selects, scanning field.subfields in
\* order, the first sub-field ONE of whose ref_fields is matched by a field of
\* the record with that def_num and that raw value, and the original field
\* becomes parent_field; if no sub-field has a matched reference the original
\* field is used and parent_field is none.
C13_FirstSubfieldAnyRef ==
    \A m \in DataMessages : \A j \in ProfileEntries(Messages[m].fields) :
        LET fields == Messages[m].fields
            field == The(The(fields[j].field_def).field)
        IN  CarriesFirstOf(fields[j], field,
                { k \in 1..Len(field.subfields) : AnyRefMet(field.subfields[k], fields) })

\* C13, as the specification states it: the first sub-field ALL of whose
\* ref_fields are matched is selected, and the original field otherwise.
C13_FirstSubfieldAllRefs ==
    \A m \in DataMessages : \A j \in ProfileEntries(Messages[m].fields) :
        LET fields == Messages[m].fields
            field == The(The(fields[j].field_def).field)
        IN  CarriesFirstOf(fields[j], field,
                { k \in 1..Len(field.subfields) : AllRefsMet(field.subfields[k], fields) })

\* a logged event message whose data field took the sub-field that has two
\* references, only one of them met
C13_Witness ==
    \E m \in DataMessages : \E j \in SubfieldEntries(Messages[m].fields) :
        /\ Messages[m].fields[j].field = "gear_change_data"
        /\ Messages[m].fields[j].parent_field = "data"
        /\ RefMet(Ref(0, 42), Messages[m].fields)
        /\ ~RefMet(Ref(0, 43), Messages[m].fields)

\* ---- C14
\* bitwise or and and, bit by bit
RECURSIVE OrBits(_, _)
OrBits(a, b) ==
    IF a = 0 /\ b = 0 THEN 0
    ELSE Max(a % 2, b % 2) + (2 * OrBits(a \div 2, b \div 2))
RECURSIVE AndBits(_, _)
AndBits(a, b) ==
    IF a = 0 \/ b = 0 THEN 0
    ELSE ((a % 2) * (b % 2)) + (2 * AndBits(a \div 2, b \div 2))
\* stored & mask and stored & ~mask, for mask = (1 << bits) - 1
LowPart(stored, bits) == AndBits(stored, Pow2(bits) - 1)
HighPart(stored, bits) == stored - LowPart(stored, bits)
Rolled(raw, stored, bits) == raw < LowPart(stored, bits)
AccumulateLaw(raw, stored, bits, result) ==
    /\ result = OrBits(raw, HighPart(stored, bits))
                  + (IF Rolled(raw, stored, bits) THEN Pow2(bits) ELSE 0)
    /\ (result % Pow2(bits)) = raw
    /\ Rolled(raw, stored, bits) => result >= stored + 1
    /\ result >= stored
    /\ result < HighPart(stored, bits) + (2 * Pow2(bits))
AccumulateExample(raw, stored, bits, result) ==
    (raw = 5 /\ stored = Pow2(30) - 8 /\ bits = 5) => result = Pow2(30) + 5

\* C14: for all bits, all stored >= 0 and all raw in 0..(1<<bits)-1, the
\* result of the accumulation is raw | (stored & ~mask), plus 1<<bits when
\* raw < (stored & mask); it is congruent to raw modulo 1<<bits, at least
\* stored + 1 after a rollover, never below stored and less than two
\* rollovers above the stored high part; accumulate_bits(5, 0x3FFFFFF8, 5) is
\* 0x40000005.
C14_AccumulateLaw ==
    (applied # <<>> /\ applied.n > 0) =>
        /\ AccumulateLaw(applied.raw_value, applied.accumulation, applied.num_bits,
                         applied.result)
        /\ AccumulateExample(applied.raw_value, applied.accumulation, applied.num_bits,
                             applied.result)

\* the example of the claim, a rollover, applied to the result of an
\* earlier call
C14_Witness ==
    /\ applied # <<>>
    /\ applied.n > 1
    /\ Rolled(applied.raw_value, applied.accumulation, applied.num_bits)
    /\ applied.num_bits = 5
    /\ applied.accumulation > Pow2(30)

\* ---- C15
\* a wide value lies in 0..2^32-1
FitsU32(raw) == raw.k = "wide" => raw.v[1] < Pow2(16)

\* C15, as the specification states it: after any sequence of data records
\* (timestamp fields with u32 raw values, compressed-timestamp headers with
\* any time offset in 0..31) the compressed-timestamp accumulator and every
\* synthesized timestamp raw value lie in 0..2^32-1. The code does not
\* satisfy it.
C15_AccumulatorIs32Bit ==
    /\ FitsU32(compressed_ts_accumulator)
    /\ (applied # <<>>) => FitsU32(applied.result)

\* ---- C16
\* the scenario: a definition of one uint32 field with two components (bits
\* 0-15 with scale 10; bits 16-31 accumulated over 16 bits), then the raw
\* values 0x00010002 and 0x00000001
PackedFile == Plain(DefPacked \o DataPacked \o DataPackedNext)
PackedMessages ==
    SelectSeq(Messages, LAMBDA m : m.type = "data" /\ m.mesg_num = 22)
\* the value of the entry of message m made from the component of def_num d
ComponentValue(m, d) ==
    LET hits == { j \in ComponentEntries(m.fields) :
                    m.fields[j].field = MESSAGE_TYPES[22].fields[d].name }
    IN  m.fields[CHOOSE j \in hits : TRUE].value
\* a float equal to tenths / 10
IsTenths(value, tenths) == value.k = "float" /\ (value.v[1] * 10) = (tenths * value.v[2])
PackedInstalled ==
    /\ 0 \in DOMAIN local_mesgs
    /\ local_mesgs[0].mesg_num = 22
\* the scenario's outcome, with second as the second accumulated value
PackedOutcome(second) ==
    (file = PackedFile /\ pc = "ready" /\ PackedInstalled) =>
        /\ Len(PackedMessages) = 0 => accumulators = (22 :> (2 :> 0))
        /\ Len(PackedMessages) >= 1 =>
              /\ IsTenths(ComponentValue(PackedMessages[1], 1), 2)
              /\ ComponentValue(PackedMessages[1], 2) = RawInt(1)
        /\ Len(PackedMessages) = 1 => accumulators = (22 :> (2 :> 1))
        /\ Len(PackedMessages) = 2 =>
              /\ IsTenths(ComponentValue(PackedMessages[2], 1), 1)
              /\ ComponentValue(PackedMessages[2], 2) = RawInt(second)
              /\ accumulators = (22 :> (2 :> second))

\* C16, amended: for a single u32 field with two components (bits 0-15 with
\* scale 10; bits 16-31 with accumulate and bits=16), a definition followed
\* by two data records with raw values 0x00010002 then 0x00000001 yields
\* component-0 values 0.2 then 0.1 and component-1 accumulated values 1 then
\* 0x10000; the accumulator is 0 when the definition is installed and holds
\* the last accumulated value after each record.
C16_ComponentScenario == PackedOutcome(Pow2(16))

\* C16, as the specification states it: the second accumulated value of
\* component 1 is 0x10001.
C16_ComponentScenarioAsStated == PackedOutcome(Pow2(16) + 1)

\* both records of the scenario decoded and logged
C16_Witness ==
    /\ file = PackedFile
    /\ pc = "ready"
    /\ PackedInstalled
    /\ Len(PackedMessages) = 2
    /\ exc = "none"

\* ---- C17
\* the processor calls made for the record read at offset at
CallsAt(at) == SelectSeq(calls, LAMBDA c : c.at = at)
Hook(hook, at, idx, lst, logged) ==
    [hook |-> hook, at |-> at, idx |-> idx, lst |-> lst, logged |-> logged]
\* type, field, unit for each of n entries in turn, then message once, all
\* made while the list lst had logged messages
RECURSIVE FieldHooks(_, _, _, _, _)
FieldHooks(at, idx, n, lst, logged) ==
    IF idx > n THEN <<>>
    ELSE << Hook("type", at, idx, lst, logged), Hook("field", at, idx, lst, logged),
            Hook("unit", at, idx, lst, logged) >>
         \o FieldHooks(at, idx + 1, n, lst, logged)
ExpectedCalls(at, n, lst, logged) ==
    FieldHooks(at, 1, n, lst, logged) \o << Hook("message", at, 0, lst, logged) >>
CallsInFileOrder ==
    \A i, j \in 1..Len(calls) : i < j => calls[i].at <= calls[j].at

\* C17: for every decoded data message, each of its FieldData entries gets
\* the type, field and unit processor calls in that order, entry after
\* entry, and the message processor is called once, after all of them and
\* before the message is appended to the log; a definition record gets no
\* processor call.
C17_ProcessorOrder ==
    /\ CallsInFileOrder
    /\ \A lst \in 1..Len(logs) : \A k \in 1..Len(logs[lst]) :
          CallsAt(logs[lst][k].at) =
              IF logs[lst][k].type = "data"
              THEN ExpectedCalls(logs[lst][k].at, Len(logs[lst][k].fields), lst, k - 1)
              ELSE <<>>

\* a definition and then a data message of four entries in the log, the
\* calls for the data message made
C17_Witness ==
    \E lst \in 1..Len(logs) : \E k \in 2..Len(logs[lst]) :
        /\ logs[lst][k - 1].type = "definition"
        /\ logs[lst][k].type = "data"
        /\ Len(logs[lst][k].fields) = 4
        /\ Len(CallsAt(logs[lst][k].at)) = 13

\* ---- C18
EnteredEvents == { i \in 1..Len(trace) : trace[i].k = "entered" }
\* the last record section entered before the event i of the trace
EnteredBefore(i) ==
    trace[CHOOSE e \in EnteredEvents :
              e <= i /\ \A f \in EnteredEvents : f <= i => f <= e]
\* data_size of a section, and the offset of its first record
DataSizeOf(entered) == entered.snap[1].bytes_left
ReadingRecords ==
    /\ pc = "ready"
    /\ ~stepped
    /\ exc = "none"
    /\ trace # <<>>
    /\ Last(trace).k \in {"entered", "record"}

\* C18, as the specification states it: while the records of a section are
\* read, bytes_left is data_size minus the bytes consumed since the end of
\* the header and is never negative, and a footer is read only where exactly
\* data_size bytes of records have been consumed. The code does not satisfy
\* it.
C18_DataSizeDelimits ==
    /\ ReadingRecords =>
          /\ bytes_left = DataSizeOf(EnteredBefore(Len(trace)))
                            - (pos - EnteredBefore(Len(trace)).at)
          /\ bytes_left >= 0
    /\ \A i \in 1..Len(trace) :
          (~stepped /\ trace[i].k = "footer") =>
              trace[i].at = EnteredBefore(i).at + DataSizeOf(EnteredBefore(i))

\* ---- C19
\* the accumulating components a record of the installed definition d may
\* expand: those of its profile fields and of their sub-fields
AccumulatingComponents(d) ==
    UNION { LET f == The(d.field_defs[i].field) IN
            { c \in { f.components[k] : k \in 1..Len(f.components) } : c.accumulate }
            \cup UNION { { c \in { f.subfields[u].components[k] :
                                     k \in 1..Len(f.subfields[u].components) } :
                             c.accumulate } : u \in 1..Len(f.subfields) }
            : i \in { j \in 1..Len(d.field_defs) : ~IsNone(d.field_defs[j].field) } }
\* an installed definition has an accumulating component without accumulator
AccumulatorUnset ==
    \E n \in DOMAIN local_mesgs : \E c \in AccumulatingComponents(local_mesgs[n]) :
        accumulator_missing([accumulators |-> accumulators],
                            local_mesgs[n].mesg_num, c.def_num)

\* C19, as the specification states it: whenever the data decoder applies
\* accumulation for a component, an accumulator for (global_mesg_num,
\* component.def_num) exists, for the components of a selected sub-field as
\* well: no record accepted by an installed definition fails on the
\* accumulator lookup. The code does not satisfy it.
C19_AccumulatorExists ==
    ~(pc = "ready" /\ exc = "KeyError" /\ AccumulatorUnset)

\* ---- C20
\* a step that returned advanced the read position
Advances == (exc' = "none") => (pos' > pos)
\* a step changed the read position or bytes_left
Moves == (pos' # pos) \/ (bytes_left' # bytes_left)

\* C20, amended: for every finite input (data_size 0, data_size larger than
\* the bytes present, zero-field definitions and chained sections included),
\* repeatedly taking the iteration step eventually reaches Complete or raises
\* an error, and every step that returns without raising advances the read
\* position.
C20_Termination ==
    /\ <>Stopped
    /\ [][Step => Advances]_vars

\* C20, as the specification states it: no step leaves the read position and
\* bytes_left both unchanged.
C20_EveryStepMoves == [][Step => Moves]_vars

\* the steps reached Complete in the second section of a chained file
C20_Witness ==
    /\ complete
    /\ stepped
    /\ exc = "none"
    /\ Cardinality(HeaderEvents) = 2

\* ---- C21
\* a call of _parse_message or of parse() on a parser that is complete
CallWhenComplete ==
    /\ pc = "ready"
    /\ complete
    /\ ~fopen
    /\ (ParseMessage \/ Parse)
\* the call returned none, raised nothing and left the log, the CRC state
\* and the local-message table as they were
ReturnsNoneUntouched ==
    /\ exc' = "none"
    /\ ret' = NoneOf
    /\ UNCHANGED << logs, crc, out_crc, local_mesgs >>

\* C21, as the specification states it: once the parser is complete, with
\* its input stream closed, every further call of _parse_message or of
\* parse() returns none without raising and leaves the message log, the CRC
\* state and the local-message table unchanged. The code does not satisfy it.
C21_CompleteIsAbsorbing == [][CallWhenComplete => ReturnsNoneUntouched]_vars

\* ---- C22
\* generator i, without filter and with definitions, ran to its end and
\* yielded every message parsed from the stream, in file order
FirstFullIteration(i) ==
    /\ FullIteration(iters[i])
    /\ iters[i].st = "done"
    /\ iters[i].yielded = Messages
    /\ Ats(Messages) = Ats(RecordEvents)
\* generator j was made and run to its end after the parse was over: the
\* list it went through is the last one, and had all its messages at the
\* first next()
IterationAfterComplete(j) ==
    /\ FullIteration(iters[j])
    /\ iters[j].st = "done"
    /\ iters[j].lst = Len(logs)
    /\ iters[j].log_at_start = Len(Last(logs))
\* what the messages property returns: list(self.get_messages())
MessagesSnapshot == SelectSeq(Last(logs), LAMBDA m : m.type = "data")

\* C22, as the specification states it: once the parser is complete, the
\* message log, the messages snapshot and every new get_messages() iteration
\* hold what the first full iteration produced, every message parsed from
\* the stream in file order, those of all chained sections included. The
\* code does not satisfy it.
C22_ReplayAfterComplete ==
    \A i \in Iterators :
        (pc = "ready" /\ complete /\ FirstFullIteration(i)) =>
            /\ Last(logs) = iters[i].yielded
            /\ MessagesSnapshot = SelectSeq(iters[i].yielded, LAMBDA m : m.type = "data")
            /\ \A j \in Iterators :
                  IterationAfterComplete(j) => iters[j].yielded = iters[i].yielded

\* ---- C23
\* the messages of the log that the filter of generator it selects, in file
\* order
Selected(it) == SelectSeq(Messages, LAMBDA m : Wanted(m, it.name, it.with_definitions))

\* C23, as the specification states it, for a stream of one file (one list
\* of messages): whatever the interleaving of the next() calls of the
\* generators, a generator that has run to its end has yielded every message
\* its filter selects, once and in file order. The code does not satisfy it.
C23_InterleavedIterators ==
    \A i \in Iterators :
        (pc = "ready" /\ exc = "none" /\ Len(logs) = 1 /\ iters[i].st = "done") =>
            iters[i].yielded = Selected(iters[i])
====
